---- MODULE Spec2Model ----
(***************************************************************************)
(* Model of the classification and structured-extraction engine of the     *)
(* ai-email-processor: EmailClassifier.classify_email, the primary/fallback *)
(* ExtractionService and EmailProcessingService.process_emails_for_tenant.  *)
(*                                                                         *)
(* Text is modelled as a sequence of words.  A word is an atomic piece of  *)
(* a Python string; Japanese words are written in romanised lower case     *)
(* (anken = the word for "job order", youin = "personnel", ...), literal   *)
(* ASCII words keep their spelling and case ("PR", "Resume").  "NL" is a   *)
(* line feed and "SP" a blank.  `kw in text` is contiguous containment of   *)
(* the keyword's words, str.lower() maps every word to its lower case.     *)
(***************************************************************************)
EXTENDS Integers, Sequences, FiniteSets, TLC

\* Python's None where a category name or a flag is expected
None == "None"

\* Python's None where a string is expected
NoneStr == <<"<None>">>

\* ------------------------------------------------------------------------
\* Bounds of the model
\* ------------------------------------------------------------------------
MaxBodyLines == 2

\* ------------------------------------------------------------------------
\* Strings
\* ------------------------------------------------------------------------
\* str.lower(): only ASCII letters have case; romanised Japanese words stand
\* for kana/kanji and are unchanged.  A word of one ASCII letter or digit
\* stands for that character.
LowerWord(w) ==
    CASE w = "PR" -> "pr"
      [] w = "Resume" -> "resume"
      [] w = "CV" -> "cv"
      [] w = ".PDF" -> ".pdf"
      [] w = "NoReply" -> "noreply"
      [] w = "Engineer" -> "engineer"
      [] w = "N" -> "n"
      [] w = "F" -> "f"
      [] w = "M" -> "m"
      [] OTHER -> w

Lower(s) == [i \in DOMAIN s |-> LowerWord(s[i])]

\* needle matches s at position i
MatchAt(needle, s, i) ==
    /\ i >= 1
    /\ i + Len(needle) - 1 <= Len(s)
    /\ \A k \in 1..Len(needle) : s[i + k - 1] = needle[k]

\* Python's `needle in s`
Contains(s, needle) == \E i \in 1..Len(s) : MatchAt(needle, s, i)

\* any(word in v_str for word in words)
AnyIn(words, v_str) == \E word \in words : Contains(v_str, word)

\* s.endswith(suffix)
EndsWith(s, suffix) == MatchAt(suffix, s, Len(s) - Len(suffix) + 1)

SetMin(S) == CHOOSE x \in S : \A y \in S : x <= y

\* Position of the first word at or after i that is not white space (\s*)
RECURSIVE SkipWs(_, _)
SkipWs(s, i) ==
    IF i <= Len(s) /\ s[i] \in {"SP", "NL"} THEN SkipWs(s, i + 1) ELSE i

\* A regular expression of the classifier, in the one shape they all have:
\*     head .*? tail  [ (close-bracket)? \s* colon \s* [ value ] ]
\* head and tail are literal word sequences (tail may be empty), .*? stays
\* on one line, the part after the tail is present when colon is TRUE and
\* value is a set of head/tail alternatives (empty: nothing after the colon).
Pat(h, t) == [head |-> h, tail |-> t, colon |-> FALSE, value |-> {}]

Field(h, t, v) == [head |-> h, tail |-> t, colon |-> TRUE, value |-> v]

\* End (position after the match) of  head.*?tail  started at i; 0: no match
LazyEnds(pat, s, i) ==
    IF ~MatchAt(pat.head, s, i) THEN {}
    ELSE IF pat.tail = <<>> THEN {i + Len(pat.head)}
    ELSE LET from == i + Len(pat.head)
         IN {j + Len(pat.tail) : j \in {k \in from..Len(s) :
                /\ MatchAt(pat.tail, s, k)
                /\ \A m \in from..(k - 1) : s[m] # "NL"}}

\* End of the part of pat that follows the tail, started at e; 0: no match
RestEnd(pat, s, e) ==
    IF ~pat.colon THEN e
    ELSE LET e2 == IF e <= Len(s) /\ s[e] = "]" THEN e + 1 ELSE e
             e3 == SkipWs(s, e2)
         IN IF e3 > Len(s) \/ s[e3] # ":" THEN 0
            ELSE IF pat.value = {} THEN e3 + 1
            ELSE LET e4 == SkipWs(s, e3 + 1)
                     ends == UNION {LazyEnds(v, s, e4) : v \in pat.value}
                 IN IF ends = {} THEN 0 ELSE SetMin(ends)

\* End of the match of pat that starts at i (the lazy .*? takes the first
\* tail after which the rest matches); 0 when pat does not match at i
MatchEnd(pat, s, i) ==
    LET ends == {RestEnd(pat, s, e) : e \in LazyEnds(pat, s, i)} \ {0}
    IN IF ends = {} THEN 0 ELSE SetMin(ends)

\* len(re.findall(pat, s)): leftmost non-overlapping matches from position p
RECURSIVE FindAllFrom(_, _, _)
FindAllFrom(pat, s, p) ==
    LET starts == {i \in p..Len(s) : MatchEnd(pat, s, i) # 0}
    IN IF starts = {} THEN 0
       ELSE 1 + FindAllFrom(pat, s, MatchEnd(pat, s, SetMin(starts)))

FindAll(pat, s) == FindAllFrom(pat, s, 1)

\* sum of f[i] over the indices of the sequence f
RECURSIVE SumSeqFrom(_, _)
SumSeqFrom(f, i) == IF i > Len(f) THEN 0 ELSE f[i] + SumSeqFrom(f, i + 1)

SumSeq(f) == SumSeqFrom(f, 1)

\* ------------------------------------------------------------------------
\* EmailClassifier: the lists of _init_classification_components
\* ------------------------------------------------------------------------
EmailType == {"project_related", "engineer_related", "other", "unclassified"}

ultra_strong_engineer_indicators == <<
    Pat(<<"youin">>, <<"goshoukai">>),
    Pat(<<"jinzai">>, <<"goshoukai">>),
    Pat(<<"gijutsusha">>, <<"goshoukai">>),
    Pat(<<"enjinia">>, <<"goshoukai">>),
    Pat(<<"[", "shi">>, <<"mei", "]">>),
    Pat(<<"[", "nen">>, <<"rei", "]">>),
    Pat(<<"[", "sei">>, <<"betsu", "]">>),
    Pat(<<"[", "moyori">>, <<"eki", "]">>),
    Pat(<<"[", "jitsumu", "keiken", "]">>, <<>>),
    Pat(<<"[", "eigyou">>, <<"kyou", "]">>),
    Pat(<<"rirekisho">>, <<"tenpu">>),
    Pat(<<"shokumukeireki", "sho">>, <<"tenpu">>) >>

ultra_strong_project_indicators == <<
    Pat(<<"anken">>, <<"boshuu">>),
    Pat(<<"purojekuto">>, <<"boshuu">>),
    Pat(<<"kaihatsu", "anken">>, <<"goshoukai">>),
    Pat(<<"[", "anken">>, <<"mei", "]">>),
    Pat(<<"[", "purojekuto">>, <<"mei", "]">>),
    Pat(<<"sankaku">>, <<"boshuu">>),
    Pat(<<"[", "hissu">>, <<"sukiru", "]">>),
    Pat(<<"[", "kangei">>, <<"sukiru", "]">>),
    Pat(<<"[", "kinmu">>, <<"chi", "]">>),
    Pat(<<"oubo">>, <<"shimekiri">>) >>

\* words a value may consist of (\w+), numbers (\d+)
NameWords == {"yamada", "A", "B", "C", "D", "shibuya"}

Numbers == {"30", "5", "60"}

NumberThen(w) == {Pat(<<n>>, <<w>>) : n \in Numbers}

personal_info_patterns == <<
    Field(<<"shi">>, <<"mei">>, {Pat(<<w>>, <<>>) : w \in NameWords \cup Numbers}),
    Field(<<"nen">>, <<"rei">>, NumberThen("sai")),
    Field(<<"sei">>, <<"betsu">>, {Pat(<<"dansei">>, <<>>), Pat(<<"josei">>, <<>>)}),
    Field(<<"moyori">>, <<"eki">>, {}),
    Field(<<"jitsumu", "keiken">>, <<>>, NumberThen("nen")),
    Field(<<"nihon">>, <<"go">>, {Pat(<<"N1">>, <<"kyuu">>), Pat(<<"bijinesu">>, <<"reberu">>)}),
    Field(<<"tan">>, <<"ka">>, NumberThen("man")),
    Field(<<"kadou">>, <<>>, {}),
    Field(<<"eigyou">>, <<"kyou">>, {}),
    Field(<<"taiou">>, <<"koutei">>, {}),
    Field(<<"sukiru">>, <<>>, {}),
    Field(<<"bi">>, <<"kou">>, {}) >>

project_info_patterns == <<
    Field(<<"anken">>, <<"mei">>, {}),
    Field(<<"kuraianto">>, <<>>, {}),
    Field(<<"hissu">>, <<"sukiru">>, {}),
    Field(<<"kangei">>, <<"sukiru">>, {}),
    Field(<<"kinmu">>, <<"chi">>, {}),
    Field(<<"ki">>, <<"kan">>, {}),
    Field(<<"kaishi">>, <<"bi_day">>, {}),
    Field(<<"shuuryou">>, <<"bi_day">>, {}),
    Field(<<"mendan">>, <<"kaisuu">>, {}) >>

keywords == [
    project_related |-> [
        super |-> {<<"anken", "boshuu">>, <<"purojekuto", "boshuu">>,
                   <<"kaihatsu", "anken", "goshoukai">>, <<"shinki", "anken">>,
                   <<"kinkyuu", "anken">>, <<"anken", "shousai">>,
                   <<"sankaku", "boshuu">>},
        high |-> {<<"anken">>, <<"purojekuto">>, <<"boshuu">>, <<"sankaku">>,
                  <<"hissu", "sukiru">>, <<"kangei", "sukiru">>,
                  <<"kinmu", "chi">>, <<"jouchuu">>, <<"kuraianto">>,
                  <<"mendan">>, <<"oubo">>},
        mid |-> {<<"kaihatsu">>, <<"sekkei">>, <<"kouchiku">>, <<"hoshu">>,
                 <<"unyou">>, <<"tesuto">>, <<"youken", "teigi">>,
                 <<"kihon", "sekkei">>, <<"shousai", "sekkei">>}],
    engineer_related |-> [
        super |-> {<<"youin", "goshoukai">>, <<"jinzai", "goshoukai">>,
                   <<"gijutsusha", "goshoukai">>, <<"enjinia", "goshoukai">>,
                   <<"rirekisho", "tenpu">>,
                   <<"shokumukeireki", "sho", "tenpu">>,
                   <<"sukiru", "shiito", "tenpu">>, <<"kojin", "shoukai">>,
                   <<"jinzai", "jouhou">>, <<"gijutsusha", "jouhou">>},
        high |-> {<<"enjinia">>, <<"gijutsusha">>, <<"kaihatsu", "sha">>,
                  <<"puroguramaa">>, <<"rirekisho">>, <<"shokumukeireki">>,
                  <<"kibou", "tan", "ka">>, <<"kadou", "kanou">>,
                  <<"eigyou", "jou", "kyou">>, <<"teian", "nomi">>,
                  <<"mendan", "kanou">>},
        mid |-> {<<"keiken", "nensuu">>, <<"kaihatsu", "keiken">>,
                 <<"gyoumu", "keireki">>, <<"shikaku">>, <<"gakureki">>,
                 <<"nihon", "go", "reberu">>, <<"komyunikeeshon">>,
                 <<"majime">>, <<"sekininkan">>}]]

exclusion_keywords == {<<"koukoku">>, <<"senden">>, <<"PR">>, <<"seeru">>,
    <<"kyanpeen">>, <<"gentei", "ofaa">>, <<"imasugu", "kurikku">>,
    <<"tokubetsu", "kakaku">>, <<"muryou", "purezento">>, <<"fukugyou">>}

sender_patterns == [
    recruiting |-> <<"recruit", "hr", "jinzai", "career", "agent">>,
    suspicious |-> <<"noreply", "spam", "promo", "marketing", "no-reply">>]

\* ------------------------------------------------------------------------
\* EmailClassifier: the analyzers.  An email is the dict handed to
\* classify_email: subject, body_text, sender_email, sender_name (a string
\* or None each) and attachments (a list of dicts with a filename, or None).
\* Confidences are in hundredths (0.95 is 95).
\* ------------------------------------------------------------------------

\* EmailClassifier.__init__: the client the configuration yields, if any
InitAIClient(cfg) ==
    IF cfg.provider_name = "openai" THEN cfg.api_key
    ELSE IF cfg.provider_name \in {"deepseek", "custom"}
         THEN cfg.api_key /\ cfg.api_base_url
    ELSE FALSE

\* check_spam_indicators raises AttributeError on None.lower()
SpamRaises(e) ==
    e.subject = NoneStr \/ e.body_text = NoneStr \/ e.sender_email = NoneStr

SpamCount(e) ==
    LET combined_text == Lower(e.subject) \o <<"SP">> \o Lower(e.body_text)
    IN Cardinality({kw \in exclusion_keywords : Contains(combined_text, kw)})

SenderSuspicious(e) ==
    \E i \in DOMAIN sender_patterns.suspicious :
        Contains(Lower(e.sender_email), <<sender_patterns.suspicious[i]>>)

check_spam_indicators(e) == SpamCount(e) >= 2 \/ SenderSuspicious(e)

CountAll(patterns, text) ==
    SumSeq([i \in DOMAIN patterns |-> FindAll(patterns[i], text)])

\* the decisive-type rule of analyze_email_structure checked in a wrong order
StructureDecisionProjectFirst(base) ==
    IF base.ultra_project_score >= 20
    THEN base @@ [definitive_type |-> "project_related", confidence |-> 95,
                  structure_type |-> "definitive_project"]
    ELSE IF base.ultra_engineer_score >= 20
    THEN base @@ [definitive_type |-> "engineer_related", confidence |-> 95,
                  structure_type |-> "definitive_engineer"]
    ELSE base @@ [definitive_type |-> None, confidence |-> 0,
                  structure_type |-> "unknown"]

\* the decisive-type rule with the field counts consulted before the
\* ultra-strong project score
StructureDecisionFieldsFirst(base) ==
    IF base.ultra_engineer_score >= 20
    THEN base @@ [definitive_type |-> "engineer_related", confidence |-> 95,
                  structure_type |-> "definitive_engineer"]
    ELSE IF base.personal_info_count >= 4
    THEN base @@ [definitive_type |-> "engineer_related", confidence |-> 90,
                  structure_type |-> "personal_profile"]
    ELSE IF base.ultra_project_score >= 20
    THEN base @@ [definitive_type |-> "project_related", confidence |-> 95,
                  structure_type |-> "definitive_project"]
    ELSE IF base.project_info_count >= 4
    THEN base @@ [definitive_type |-> "project_related", confidence |-> 90,
                  structure_type |-> "project_description"]
    ELSE base @@ [definitive_type |-> None, confidence |-> 0,
                  structure_type |-> "unknown"]

\* the decisive-type rule that closes analyze_email_structure
StructureDecision(base) ==
    IF base.ultra_engineer_score >= 20
    THEN base @@ [definitive_type |-> "engineer_related", confidence |-> 95,
                  structure_type |-> "definitive_engineer"]
    ELSE IF base.ultra_project_score >= 20
    THEN base @@ [definitive_type |-> "project_related", confidence |-> 95,
                  structure_type |-> "definitive_project"]
    ELSE IF base.personal_info_count >= 4
    THEN base @@ [definitive_type |-> "engineer_related", confidence |-> 90,
                  structure_type |-> "personal_profile"]
    ELSE IF base.project_info_count >= 4
    THEN base @@ [definitive_type |-> "project_related", confidence |-> 90,
                  structure_type |-> "project_description"]
    ELSE base @@ [definitive_type |-> None, confidence |-> 0,
                  structure_type |-> "unknown"]

analyze_email_structure(e) ==
    LET combined_text == e.subject \o <<"NL">> \o e.body_text
    IN StructureDecision(
        [ultra_engineer_score |->
            20 * CountAll(ultra_strong_engineer_indicators, combined_text),
         ultra_project_score |->
            20 * CountAll(ultra_strong_project_indicators, combined_text),
         personal_info_count |-> CountAll(personal_info_patterns, combined_text),
         project_info_count |-> CountAll(project_info_patterns, combined_text)])

\* values of the locals of classify_email before they are assigned
NoStructure ==
    [ultra_engineer_score |-> 0, ultra_project_score |-> 0,
     personal_info_count |-> 0, project_info_count |-> 0,
     definitive_type |-> None, confidence |-> 0, structure_type |-> "unset"]

NoAttachments ==
    [total_count |-> 0, resume_files |-> 0, confidence |-> 0, strong_type |-> "unset"]

NoScores == [engineer |-> 0, project |-> 0, set |-> FALSE]

NoEmail ==
    [subject |-> NoneStr, body_text |-> NoneStr, sender_email |-> NoneStr,
     sender_name |-> NoneStr, attachments |-> <<>>]

NoReply == [kind |-> "none", category |-> <<>>, confidence |-> "absent"]

engineer_patterns == {<<"rirekisho">>, <<"shokumukeireki">>,
    <<"sukiru", "shiito">>, <<"resume">>, <<"cv">>, <<"profile">>}

project_patterns == {<<"anken">>, <<"project">>, <<"proposal">>,
    <<"shousai">>, <<"shiyou">>, <<"youken">>}

resume_extensions == {".docx", ".doc", ".pdf", ".xlsx", ".xls"}

\* analyze_attachments raises on None.lower() of a filename
AttachmentsRaise(e) ==
    \E i \in DOMAIN e.attachments : e.attachments[i].filename = NoneStr

\* the loop turn with the filename compared as written, not lowercased
AttachmentStepCaseSensitive(analysis, attachment) ==
    LET filename == attachment.filename
        isEngineer == \E p \in engineer_patterns : Contains(filename, p)
        isProject == \E p \in project_patterns : Contains(filename, p)
        isResume == \E ext \in resume_extensions :
                        /\ EndsWith(filename, <<ext>>)
                        /\ (isEngineer \/ ext \in {".docx", ".doc", ".pdf"})
        a1 == IF isResume
              THEN [analysis EXCEPT !.resume_files = @ + 1] ELSE analysis
        a2 == IF isEngineer
              THEN [a1 EXCEPT !.confidence = 90,
                              !.strong_type = "engineer_related"]
              ELSE a1
    IN IF isProject /\ a2.confidence < 80
       THEN [a2 EXCEPT !.confidence = 80, !.strong_type = "project_related"]
       ELSE a2

\* the loop turn with a project pattern setting the type whatever the
\* confidence is
AttachmentStepProjectWins(analysis, attachment) ==
    LET filename == Lower(attachment.filename)
        isEngineer == \E p \in engineer_patterns : Contains(filename, p)
        isProject == \E p \in project_patterns : Contains(filename, p)
        isResume == \E ext \in resume_extensions :
                        /\ EndsWith(filename, <<ext>>)
                        /\ (isEngineer \/ ext \in {".docx", ".doc", ".pdf"})
        a1 == IF isResume
              THEN [analysis EXCEPT !.resume_files = @ + 1] ELSE analysis
        a2 == IF isEngineer
              THEN [a1 EXCEPT !.confidence = 90,
                              !.strong_type = "engineer_related"]
              ELSE a1
    IN IF isProject
       THEN [a2 EXCEPT !.confidence = IF @ < 80 THEN 80 ELSE @,
                       !.strong_type = "project_related"]
       ELSE a2

\* one turn of the loop over the attachments
AttachmentStep(analysis, attachment) ==
    LET filename == Lower(attachment.filename)
        isEngineer == \E p \in engineer_patterns : Contains(filename, p)
        isProject == \E p \in project_patterns : Contains(filename, p)
        isResume == \E ext \in resume_extensions :
                        /\ EndsWith(filename, <<ext>>)
                        /\ (isEngineer \/ ext \in {".docx", ".doc", ".pdf"})
        a1 == IF isResume
              THEN [analysis EXCEPT !.resume_files = @ + 1] ELSE analysis
        a2 == IF isEngineer
              THEN [a1 EXCEPT !.confidence = 90,
                              !.strong_type = "engineer_related"]
              ELSE a1
    IN IF isProject /\ a2.confidence < 80
       THEN [a2 EXCEPT !.confidence = 80, !.strong_type = "project_related"]
       ELSE a2

RECURSIVE AttachmentLoop(_, _, _)
AttachmentLoop(analysis, attachments, i) ==
    IF i > Len(attachments) THEN analysis
    ELSE AttachmentLoop(AttachmentStep(analysis, attachments[i]),
                        attachments, i + 1)

analyze_attachments(e) ==
    LET start == [total_count |-> Len(e.attachments), resume_files |-> 0,
                  confidence |-> 0, strong_type |-> None]
        looped == AttachmentLoop(start, e.attachments, 1)
    IN IF looped.resume_files > 0
       THEN [looped EXCEPT !.confidence = 95,
                           !.strong_type = "engineer_related"]
       ELSE looped

\* smart_content_extraction for a plain-text body of at most 2000 characters
smart_content_extraction(e) == e.body_text

calculate_keyword_score(text, email_type) ==
    LET text_lower == Lower(text)
        found(tier) == Cardinality({kw \in keywords[email_type][tier] :
                                        Contains(text_lower, kw)})
    IN 25 * found("super") + 5 * found("high") + found("mid")

\* analyze_sender_info raises on None.lower() of the sender name
SenderRaises(e) == e.sender_name = NoneStr

\* sender_email.split("@")[1]
DomainOf(addr) ==
    LET ats == {i \in DOMAIN addr : addr[i] = "@"}
        first == SetMin(ats)
        later == {i \in ats : i > first}
        last == IF later = {} THEN Len(addr) ELSE SetMin(later) - 1
    IN SubSeq(addr, first + 1, last)

analyze_sender_info(e) ==
    LET sender_email == Lower(e.sender_email)
        sender_name == Lower(e.sender_name)
    IN IF ~Contains(sender_email, <<"@">>) THEN "unknown"
       ELSE LET domain == DomainOf(sender_email)
            IN IF \E i \in DOMAIN sender_patterns.suspicious :
                     Contains(domain, <<sender_patterns.suspicious[i]>>)
               THEN "suspicious"
               ELSE IF \E i \in DOMAIN sender_patterns.recruiting :
                     \/ Contains(domain, <<sender_patterns.recruiting[i]>>)
                     \/ Contains(sender_name, <<sender_patterns.recruiting[i]>>)
               THEN "recruiting"
               ELSE "unknown"

\* steps 5 and 6 of classify_email: the two final scores
FinalScores(e, sa) ==
    LET extracted_content == smart_content_extraction(e)
        project_score == calculate_keyword_score(extracted_content, "project_related")
        engineer_score == calculate_keyword_score(extracted_content, "engineer_related")
        recruiting == IF analyze_sender_info(e) = "recruiting" THEN 5 ELSE 0
    IN [set |-> TRUE,
        engineer |-> engineer_score + sa.personal_info_count * 3
                        + sa.ultra_engineer_score \div 2 + recruiting,
        project |-> project_score + sa.project_info_count * 3
                        + sa.ultra_project_score \div 2]

\* step 7 never deciding
KeywordDecisionNever(fs) == None

\* step 7 of classify_email: the high-confidence decision on the scores
KeywordDecision(fs) ==
    IF fs.engineer > fs.project + 5 /\ fs.engineer > 10 THEN "engineer_related"
    ELSE IF fs.project > fs.engineer + 5 /\ fs.project > 10 THEN "project_related"
    ELSE None

informational_words == {<<"setsumeikai">>, <<"annai">>, <<"benkyoukai">>, <<"seminaa">>}

_fallback_classification(content, project_score, engineer_score) ==
    IF engineer_score > project_score /\ engineer_score > 3 THEN "engineer_related"
    ELSE IF project_score > engineer_score /\ project_score > 3 THEN "project_related"
    ELSE IF \E w \in informational_words : Contains(Lower(content), w) THEN "other"
    ELSE "unclassified"

\* ------------------------------------------------------------------------
\* EmailClassifier._call_ai_classifier (the second definition of the class
\* body, which is the one Python binds)
\* ------------------------------------------------------------------------

\* the providers whose branch sends a chat-completion request
AIRequestProviders == {"openai", "deepseek"}

\* What the provider does with the request: the call raises (timeout, HTTP
\* error status), the response has not the expected shape, or the message
\* content is JSON with a category (a string, null or absent), or prose.
Absent == <<"<Absent>">>

AICategoryTexts == {<<"engineer", "_related">>, <<"project", "_related">>,
    <<"other">>, <<"spam">>, <<"Engineer", "_related">>}

\* the "confidence" member of a JSON reply: a number (or a numeric string),
\* absent, a string that is not a number, or null
Confidences == {"number", "absent", "text", "null"}

AIReplies ==
    {[kind |-> k, category |-> <<>>, confidence |-> "absent"] :
        k \in {"timeout", "http_error", "bad_shape"}}
    \cup {[kind |-> "json", category |-> c, confidence |-> "number"] :
            c \in AICategoryTexts \cup {NoneStr, Absent}}
    \cup {[kind |-> "json", category |-> <<"engineer", "_related">>,
           confidence |-> f] : f \in Confidences}
    \cup {[kind |-> "text", category |-> c, confidence |-> "absent"] :
            c \in {<<"Engineer", "_related">>, <<"sorry">>}}

\* the if/elif chain on the category text
CategoryOf(category_str) ==
    IF Contains(category_str, <<"engineer">>) THEN "engineer_related"
    ELSE IF Contains(category_str, <<"project">>) THEN "project_related"
    ELSE IF Contains(category_str, <<"other">>) THEN "other"
    ELSE "unclassified"

_extract_category_from_text(text) == CategoryOf(Lower(text))

\* the value the except clause of _call_ai_classifier returns
AIFailureResult == "unclassified"

\* float(result.get("confidence", 0.5)) raises ValueError or TypeError
FloatRaises == {"text", "null"}

\* the value _call_ai_classifier returns for a reply
AIResult(reply) ==
    IF reply.kind \in {"timeout", "http_error", "bad_shape"} THEN AIFailureResult
    ELSE IF reply.kind = "text" THEN _extract_category_from_text(reply.category)
    ELSE IF reply.confidence \in FloatRaises THEN AIFailureResult
    ELSE IF reply.category = Absent THEN CategoryOf(<<"unclassified">>)
    ELSE IF reply.category = NoneStr THEN AIFailureResult
    ELSE CategoryOf(reply.category)

\* classify_email without its except clause: the exception leaves the call
ClassifyExceptPropagates == "exception"

\* the value the except clause of classify_email returns
ClassifyExceptResult == "unclassified"

\* ------------------------------------------------------------------------
\* Inputs
\* ------------------------------------------------------------------------
SampleLines == <<
    <<"youin", "goshoukai">>,
    <<"[", "shi", "mei", "]", "[", "nen", "rei", "]", "[", "jitsumu", "keiken", "]">>,
    <<"anken", "boshuu", "SP", "sankaku", "boshuu">>,
    <<"shi", "mei", ":", "yamada", "SP", "nen", "rei", ":", "30", "sai", "SP",
      "sei", "betsu", ":", "dansei", "SP", "moyori", "eki", ":", "shibuya">>,
    <<"anken", "mei", ":", "A", "SP", "kuraianto", ":", "B", "SP",
      "kinmu", "chi", ":", "C", "SP", "ki", "kan", ":", "D">>,
    <<"sukiru", "shiito", "tenpu">>,
    <<"shinki", "anken">>,
    <<"enjinia", "SP", "shikaku">>,
    <<"seminaa">>,
    <<"koukoku">>,
    <<"PR">>,
    <<"seeru">> >>

\* the lines idx[1], idx[2], ... joined by line feeds
RECURSIVE JoinLines(_, _)
JoinLines(idx, i) ==
    IF i > Len(idx) THEN <<>>
    ELSE IF i = Len(idx) THEN SampleLines[idx[i]]
    ELSE SampleLines[idx[i]] \o <<"NL">> \o JoinLines(idx, i + 1)

\* bodies: up to MaxBodyLines distinct sample lines
LineChoices ==
    UNION {{idx \in [1..n -> DOMAIN SampleLines] :
                \A i \in 1..(n - 1) : idx[i] < idx[i + 1]} : n \in 0..MaxBodyLines}

Bodies == {JoinLines(idx, 1) : idx \in LineChoices} \cup {NoneStr}

Subjects == {NoneStr, <<>>, SampleLines[1]}

Senders == {
    [sender_email |-> <<"tanaka", "@", "example", ".com">>, sender_name |-> <<"tanaka">>],
    [sender_email |-> <<"sato", "@", "recruit", "-", "agent", ".jp">>, sender_name |-> <<"sato">>],
    [sender_email |-> <<"NoReply", "@", "shop", ".com">>, sender_name |-> <<"shop">>],
    [sender_email |-> <<"suzuki", "@", "example", ".com">>, sender_name |-> NoneStr]}

Attachment(f) == [filename |-> f]

AttachmentLists == {
    <<>>,
    <<Attachment(<<"rirekisho", ".pdf">>)>>,
    <<Attachment(<<"Resume", ".PDF">>)>>,
    <<Attachment(<<"document", ".pdf">>)>>,
    <<Attachment(<<"anken", "shousai", ".xlsx">>)>>,
    <<Attachment(NoneStr)>>,
    <<Attachment(<<"photo", ".jpg">>), Attachment(<<"rirekisho", ".zip">>)>>,
    <<Attachment(<<"anken", ".xlsx">>), Attachment(<<"rirekisho", ".zip">>)>>,
    <<Attachment(<<"rirekisho", ".zip">>), Attachment(<<"anken", ".xlsx">>)>>}

Emails ==
    {[subject |-> su, body_text |-> b, sender_email |-> se.sender_email,
      sender_name |-> se.sender_name, attachments |-> at] :
        su \in Subjects, b \in Bodies, se \in Senders, at \in AttachmentLists}

AIConfigs == {
    [provider_name |-> "openai", api_key |-> TRUE, api_base_url |-> FALSE],
    [provider_name |-> "deepseek", api_key |-> TRUE, api_base_url |-> TRUE],
    [provider_name |-> "custom", api_key |-> TRUE, api_base_url |-> TRUE],
    [provider_name |-> "openai", api_key |-> FALSE, api_base_url |-> FALSE]}

\* ------------------------------------------------------------------------
\* State
\* ------------------------------------------------------------------------
VARIABLES
    ai_config,            \* EmailClassifier.ai_config
    ai_client,            \* EmailClassifier.ai_client is not None
    pc,                   \* position of the classify_email call
    email_data,           \* its argument
    structure_analysis,   \* its locals
    attachment_analysis,
    scores,
    stages,               \* the stages the call has evaluated, in order
    ai_calls,             \* invocations of _call_ai_classifier in the call
    ai_requests,          \* chat-completion requests sent in the call
    ai_reply,             \* the provider's behaviour on the request
    result                \* the value returned, None before the return

cvars == <<ai_config, ai_client, pc, email_data, structure_analysis,
           attachment_analysis, scores, stages, ai_calls, ai_requests,
           ai_reply, result>>

ClassifierInit ==
    /\ ai_config \in AIConfigs
    /\ ai_client = InitAIClient(ai_config)
    /\ pc = "idle"
    /\ email_data = NoEmail
    /\ structure_analysis = NoStructure
    /\ attachment_analysis = NoAttachments
    /\ scores = NoScores
    /\ stages = <<>>
    /\ ai_calls = 0
    /\ ai_requests = 0
    /\ ai_reply = NoReply
    /\ result = None

\* a stage whose return statement is missing: the next stage runs anyway
FinishWithoutReturn(stage, value, next) ==
    /\ stages' = Append(stages, stage)
    /\ pc' = next
    /\ result' = IF value # None THEN value ELSE result

\* the return statement of a stage, or the fall through to the next one
Finish(stage, value, next) ==
    /\ stages' = Append(stages, stage)
    /\ IF value # None
       THEN pc' = "done" /\ result' = value
       ELSE pc' = next /\ result' = result

\* a caller invokes classify_email(email_data)
ClassifyEmail(e) ==
    /\ pc = "idle"
    /\ pc' = "spam"
    /\ email_data' = e
    /\ structure_analysis' = NoStructure
    /\ attachment_analysis' = NoAttachments
    /\ scores' = NoScores
    /\ stages' = <<>>
    /\ ai_calls' = 0
    /\ ai_requests' = 0
    /\ ai_reply' = NoReply
    /\ result' = None
    /\ UNCHANGED <<ai_config, ai_client>>

\* 1. spam detection
SpamStage ==
    /\ pc = "spam"
    /\ Finish("spam",
              IF SpamRaises(email_data) THEN ClassifyExceptResult
              ELSE IF check_spam_indicators(email_data) THEN "unclassified"
              ELSE None,
              "structure")
    /\ UNCHANGED <<ai_config, ai_client, email_data, structure_analysis,
                   attachment_analysis, scores, ai_calls, ai_requests, ai_reply>>

\* 2, 3. structural analysis and its decisive result
StructureStage ==
    /\ pc = "structure"
    /\ structure_analysis' = analyze_email_structure(email_data)
    /\ Finish("structure", structure_analysis'.definitive_type, "attachment")
    /\ UNCHANGED <<ai_config, ai_client, email_data, attachment_analysis,
                   scores, ai_calls, ai_requests, ai_reply>>

\* 4. attachment analysis
AttachmentStage ==
    /\ pc = "attachment"
    /\ IF AttachmentsRaise(email_data)
       THEN /\ attachment_analysis' = attachment_analysis
            /\ Finish("attachment", ClassifyExceptResult, "keyword")
       ELSE /\ attachment_analysis' = analyze_attachments(email_data)
            /\ Finish("attachment",
                      IF attachment_analysis'.confidence > 80
                      THEN attachment_analysis'.strong_type ELSE None,
                      "keyword")
    /\ UNCHANGED <<ai_config, ai_client, email_data, structure_analysis,
                   scores, ai_calls, ai_requests, ai_reply>>

\* 5, 6, 7. keyword and sender scoring, high-confidence decision; the stage
\* that follows is the AI call when a client exists, else the fallback
KeywordStage ==
    /\ pc = "keyword"
    /\ IF SenderRaises(email_data)
       THEN /\ scores' = scores
            /\ Finish("keyword", ClassifyExceptResult, "ai")
       ELSE /\ scores' = FinalScores(email_data, structure_analysis)
            /\ Finish("keyword", KeywordDecision(scores'),
                      IF ai_client THEN "ai" ELSE "fallback")
    /\ UNCHANGED <<ai_config, ai_client, email_data, structure_analysis,
                   attachment_analysis, ai_calls, ai_requests, ai_reply>>

\* 8. _call_ai_classifier up to its await: the request is sent, or the
\* provider has no branch and the ValueError is caught
AICall ==
    /\ pc = "ai"
    /\ ai_calls' = ai_calls + 1
    /\ stages' = Append(stages, "ai")
    /\ IF ai_config.provider_name \in AIRequestProviders
       THEN /\ ai_requests' = ai_requests + 1
            /\ pc' = "ai_wait"
            /\ result' = result
       ELSE /\ ai_requests' = ai_requests
            /\ pc' = "done"
            /\ result' = AIFailureResult
    /\ UNCHANGED <<ai_config, ai_client, email_data, structure_analysis,
                   attachment_analysis, scores, ai_reply>>

\* 8. the await completes: the reply is parsed and its category returned
AIResponse(reply) ==
    /\ pc = "ai_wait"
    /\ ai_reply' = reply
    /\ result' = AIResult(reply)
    /\ pc' = "done"
    /\ UNCHANGED <<ai_config, ai_client, email_data, structure_analysis,
                   attachment_analysis, scores, stages, ai_calls, ai_requests>>

\* 9. rule-based classification without an AI client
FallbackStage ==
    /\ pc = "fallback"
    /\ Finish("fallback",
              _fallback_classification(smart_content_extraction(email_data),
                                       scores.project, scores.engineer),
              "done")
    /\ UNCHANGED <<ai_config, ai_client, email_data, structure_analysis,
                   attachment_analysis, scores, ai_calls, ai_requests, ai_reply>>

\* the caller takes the result and the locals of the call are discarded
ClassifyReturn ==
    /\ pc = "done"
    /\ pc' = "idle"
    /\ email_data' = NoEmail
    /\ structure_analysis' = NoStructure
    /\ attachment_analysis' = NoAttachments
    /\ scores' = NoScores
    /\ stages' = <<>>
    /\ ai_calls' = 0
    /\ ai_requests' = 0
    /\ ai_reply' = NoReply
    /\ result' = None
    /\ UNCHANGED <<ai_config, ai_client>>

\* ------------------------------------------------------------------------
\* ai_services/extraction_service.py: reply texts and the JSON they carry
\* ------------------------------------------------------------------------
\* The text of a provider's reply is a sequence of tokens: the punctuation of
\* JSON, string literals (their content a sequence of words), the literal
\* null, and words of prose.  White space is left out, so text.strip() is the
\* text itself.  A member value is a string literal, null or an object.
Tok(t, v) == [t |-> t, v |-> v]

\* a key of a JSON object or keyword argument: a string of one word
Key(w) == <<w>>

LBrace == Tok("punct", <<"{">>)

RBrace == Tok("punct", <<"}">>)

Colon == Tok("punct", <<":">>)

Comma == Tok("punct", <<",">>)

JStr(s) == Tok("string", s)

JNull == Tok("null", <<>>)

Prose(w) == Tok("prose", <<w>>)

\* Python values: a dict (members: key -> value), a str, None
PyDict(members) == [type |-> "dict", s |-> <<>>, members |-> members]

PyStr(s) == [type |-> "str", s |-> s, members |-> <<>>]

PyNone == [type |-> "None", s |-> <<>>, members |-> <<>>]

LeafOf(tok) == IF tok.t = "string" THEN PyStr(tok.v) ELSE PyNone

JsonError == [ok |-> FALSE, value |-> PyNone, next |-> 0]

\* the JSON decoder: the value that starts at position i and the position
\* after it; an object is { } or { key : value (, key : value)* }, and a
\* repeated key keeps its last value
RECURSIVE ParseValue(_, _), ParseMembers(_, _, _)
ParseValue(toks, i) ==
    IF i > Len(toks) THEN JsonError
    ELSE IF toks[i].t \in {"string", "null"}
    THEN [ok |-> TRUE, value |-> LeafOf(toks[i]), next |-> i + 1]
    ELSE IF toks[i] # LBrace THEN JsonError
    ELSE IF i + 1 <= Len(toks) /\ toks[i + 1] = RBrace
    THEN [ok |-> TRUE, value |-> PyDict(<<>>), next |-> i + 2]
    ELSE ParseMembers(toks, i + 1, <<>>)

ParseMembers(toks, i, members) ==
    IF ~(i + 1 <= Len(toks) /\ toks[i].t = "string" /\ toks[i + 1] = Colon)
    THEN JsonError
    ELSE LET v == ParseValue(toks, i + 2)
             added == [k \in DOMAIN members \cup {toks[i].v} |->
                          IF k = toks[i].v THEN v.value ELSE members[k]]
         IN IF ~v.ok \/ v.next > Len(toks) THEN JsonError
            ELSE IF toks[v.next] = Comma
            THEN ParseMembers(toks, v.next + 1, added)
            ELSE IF toks[v.next] = RBrace
            THEN [ok |-> TRUE, value |-> PyDict(added), next |-> v.next + 1]
            ELSE JsonError

\* json.loads: ok is FALSE where it raises JSONDecodeError
json_loads(toks) ==
    LET parsed == ParseValue(toks, 1)
    IN IF parsed.ok /\ parsed.next = Len(toks) + 1
       THEN [ok |-> TRUE, value |-> parsed.value]
       ELSE [ok |-> FALSE, value |-> PyNone]

\* [^{}]* from position i: the position after it
RECURSIVE SkipNonBrace(_, _)
SkipNonBrace(text, i) ==
    IF i <= Len(text) /\ text[i] \notin {LBrace, RBrace}
    THEN SkipNonBrace(text, i + 1)
    ELSE i

\* (?:\{[^{}]*\}[^{}]*)* from position j: the position after it
RECURSIVE SkipGroups(_, _)
SkipGroups(text, j) ==
    IF j <= Len(text) /\ text[j] = LBrace
    THEN LET k == SkipNonBrace(text, j + 1)
         IN IF k <= Len(text) /\ text[k] = RBrace
            THEN SkipGroups(text, SkipNonBrace(text, k + 1))
            ELSE j
    ELSE j

\* json_pattern matched at position i: the position of its last token, 0 when
\* it does not match there
JsonPatternEnd(text, i) ==
    IF i <= Len(text) /\ text[i] = LBrace
    THEN LET j == SkipGroups(text, SkipNonBrace(text, i + 1))
         IN IF j <= Len(text) /\ text[j] = RBrace THEN j ELSE 0
    ELSE 0

\* re.findall(json_pattern, text): the matches from position i on, in order
RECURSIVE JsonMatches(_, _)
JsonMatches(text, i) ==
    IF i > Len(text) THEN <<>>
    ELSE LET e == JsonPatternEnd(text, i)
         IN IF e = 0 THEN JsonMatches(text, i + 1)
            ELSE <<SubSeq(text, i, e)>> \o JsonMatches(text, e + 1)

\* the brace counting loop: the position where the count returns to zero, 0
\* when it never does
RECURSIVE BraceClose(_, _, _)
BraceClose(text, i, brace_count) ==
    IF i > Len(text) THEN 0
    ELSE LET c == IF text[i] = LBrace THEN brace_count + 1
                  ELSE IF text[i] = RBrace THEN brace_count - 1
                  ELSE brace_count
         IN IF text[i] = RBrace /\ c = 0 THEN i
            ELSE BraceClose(text, i + 1, c)

_extract_json_from_text(text) ==
    LET whole == json_loads(text)
        matches == JsonMatches(text, 1)
        good == {m \in DOMAIN matches : json_loads(matches[m]).ok}
        starts == {i \in DOMAIN text : text[i] = LBrace}
    IN IF whole.ok THEN whole.value
       ELSE IF good # {} THEN json_loads(matches[SetMin(good)]).value
       ELSE IF starts = {} THEN PyNone
       ELSE LET start_idx == SetMin(starts)
                close == BraceClose(text, start_idx, 0)
                extracted == json_loads(SubSeq(text, start_idx, close))
            IN IF close # 0 /\ extracted.ok THEN extracted.value ELSE PyNone

\* no_auth_processor.extract_json: a dict is returned as it is; the strings
\* of the replies drawn below hold no brace, and so no JSON
extract_json(content) ==
    IF content.type = "dict" THEN content ELSE PyNone

\* ------------------------------------------------------------------------
\* _parse_date_string
\* ------------------------------------------------------------------------
\* A date string is a sequence of words: runs of digits, "-", "/", and the
\* words nen, gatsu, nichi (year, month, day).
Pad2Words == <<"01", "02", "03", "04", "05", "06", "07", "08", "09", "10",
               "11", "12", "13", "14", "15", "16", "17", "18", "19", "20",
               "21", "22", "23", "24", "25", "26", "27", "28", "29", "30",
               "31">>

Digit1Words == <<"1", "2", "3", "4", "5", "6", "7", "8", "9">>

YearWords == {"2024", "2025"}

IsDigits2(w) == \E n \in DOMAIN Pad2Words : Pad2Words[n] = w

IsDigits1or2(w) == IsDigits2(w) \/ \E n \in DOMAIN Digit1Words : Digit1Words[n] = w

\* int(): the number a run of one or two digits denotes
IntOf(w) ==
    CHOOSE n \in DOMAIN Pad2Words :
        \/ Pad2Words[n] = w
        \/ n \in DOMAIN Digit1Words /\ Digit1Words[n] = w

YearOf(w) == IF w = "2024" THEN 2024 ELSE IF w = "2025" THEN 2025 ELSE 2026

IsLeap(y) == (y % 4 = 0 /\ y % 100 # 0) \/ y % 400 = 0

DaysIn(y, m) ==
    IF m = 2 THEN (IF IsLeap(y) THEN 29 ELSE 28)
    ELSE IF m \in {4, 6, 9, 11} THEN 30 ELSE 31

\* datetime.strptime(..., "%Y-%m-%d") accepts the date
IsCalendarDate(y, m, d) == m \in 1..12 /\ d \in 1..DaysIn(y, m)

immediate_words == {<<"sokujitsu">>, <<"sokujitsu", "kaishi">>, <<"sugu">>,
                    <<"ima", "sugu">>, <<"ASAP">>}

\* the date written without zero padding
FormatDateUnpadded(yw, mw, dw) ==
    IF IsCalendarDate(YearOf(yw), IntOf(mw), IntOf(dw))
    THEN <<yw, "-", mw, "-", dw>>
    ELSE NoneStr

\* year, month and day formatted as YYYY-MM-DD, or None for no calendar date
FormatDate(yw, mw, dw) ==
    LET y == YearOf(yw)
        m == IntOf(mw)
        d == IntOf(dw)
    IN IF m \in 1..12 /\ d \in 1..31 /\ IsCalendarDate(y, m, d)
       THEN <<yw, "-", Pad2Words[m], "-", Pad2Words[d]>>
       ELSE NoneStr

_parse_date_string(date_str, today) ==
    LET n == Len(date_str)
        w(i) == IF i <= n THEN date_str[i] ELSE ""
    IN IF date_str = <<>> THEN NoneStr
       ELSE IF date_str \in immediate_words THEN today
       ELSE IF /\ n = 5 /\ w(1) \in YearWords /\ w(2) = "-" /\ IsDigits2(w(3))
               /\ w(4) = "-" /\ IsDigits2(w(5))
       THEN (IF IsCalendarDate(YearOf(w(1)), IntOf(w(3)), IntOf(w(5)))
             THEN date_str ELSE NoneStr)
       ELSE IF w(1) \in YearWords /\ w(2) = "nen" /\ IsDigits1or2(w(3))
       THEN FormatDate(w(1), w(3),
                       IF w(4) = "gatsu" /\ IsDigits1or2(w(5))
                       THEN w(5) ELSE "1")
       ELSE IF w(1) \in YearWords /\ w(2) \in {"/", "-"} /\ IsDigits1or2(w(3))
       THEN FormatDate(w(1), w(3),
                       IF w(4) \in {"/", "-"} /\ IsDigits1or2(w(5))
                       THEN w(5) ELSE "1")
       ELSE NoneStr

\* ------------------------------------------------------------------------
\* models/data_models.py: the records built from the extracted data
\* ------------------------------------------------------------------------
\* dict.get(key): None for a key the dict does not have
Get(data, key) ==
    IF key \in DOMAIN data.members THEN data.members[key] ELSE PyNone

\* bool(value)
Truthy(value) ==
    CASE value.type = "dict" -> DOMAIN value.members # {}
      [] value.type = "str" -> value.s # <<>>
      [] value.type = "int" -> \E i \in DOMAIN value.s : value.s[i] # "0"
      [] OTHER -> FALSE

title_sentinel == <<"anken", "mei", "fumei">>

name_sentinel == <<"namae", "fumei">>

experience_sentinel == <<"fumei">>

\* an Optional[str] field: None stays None
OptionalStr(value) == IF value.type = "None" THEN NoneStr ELSE value.s

\* a field declared str: the type is checked first (a missing or null value
\* is a ValidationError), the validator then replaces the empty string
RequiredStrFails(data, key) ==
    key \notin DOMAIN data.members \/ data.members[key].type # "str"

ValidatedStr(value, sentinel) == IF value.s = <<>> THEN sentinel ELSE value.s

NoRecord == [kind |-> "none"]

Raised == [kind |-> "raise"]

\* ProjectStructured(**data), for the fields title, start_date and
\* application_deadline
ProjectStructured(data) ==
    IF RequiredStrFails(data, Key("title")) THEN Raised
    ELSE [kind |-> "record",
          title |-> ValidatedStr(data.members[Key("title")], title_sentinel),
          start_date |-> OptionalStr(Get(data, Key("start_date"))),
          application_deadline |->
              OptionalStr(Get(data, Key("application_deadline")))]

\* a JSON number: an int, written as its decimal digits
PyInt(digits) == [type |-> "int", s |-> digits, members |-> <<>>]

IsDigit(c) == c \in {"0", "1", "2", "3", "4", "5", "6", "7", "8", "9"}

\* the position after the run of digits that starts at position i
RECURSIVE DigitsEnd(_, _)
DigitsEnd(s, i) ==
    IF i <= Len(s) /\ IsDigit(s[i]) THEN DigitsEnd(s, i + 1) ELSE i

\* re.findall(r"\d+", v)[0]: the first run of digits, <<>> when there is none
FirstNumber(s) ==
    LET starts == {i \in DOMAIN s : IsDigit(s[i])}
    IN IF starts = {} THEN <<>>
       ELSE SubSeq(s, SetMin(starts), DigitsEnd(s, SetMin(starts)) - 1)

\* validate_rate(v), the validator of desired_rate_min and desired_rate_max
validate_rate(v) ==
    CASE v.type = "None" -> NoneStr
      [] v.type = "int" -> v.s
      [] v.type = "str" ->
            IF FirstNumber(v.s) # <<>> THEN FirstNumber(v.s) ELSE NoneStr
      [] OTHER -> NoneStr

male == <<"otoko", "sei">>

female == <<"onna", "sei">>

undisclosed == <<"kaitou", "shinai">>

\* validate_gender(v)
validate_gender(v) ==
    LET v_str == Lower(v.s)
    IN IF v.type = "None" THEN NoneStr
       ELSE IF AnyIn({<<"otoko">>, <<"m", "a", "l", "e">>, <<"m">>}, v_str)
       THEN male
       ELSE IF AnyIn({<<"onna">>, <<"f", "e", "m", "a", "l", "e">>, <<"f">>},
                     v_str)
       THEN female
       ELSE undisclosed

\* the type check of a field declared Optional[str], which runs before the
\* field's validator: a value that is neither None nor a str is an error
OptionalStrFails(value) == value.type \notin {"None", "str"}

\* the type check of a field declared Optional[int], which runs before the
\* field's validator: an int passes, a str passes when it is a decimal
\* number and becomes that int, every other str is an error
OptionalIntFails(value) ==
    \/ value.type = "dict"
    \/ value.type = "str"
          /\ (value.s = <<>> \/ \E i \in DOMAIN value.s : ~IsDigit(value.s[i]))

OptionalInt(value) ==
    IF value.type = "str" THEN PyInt(value.s) ELSE value

\* EngineerStructured(**data), for the fields name, experience, gender and
\* desired_rate_min; the default of experience is not validated
EngineerStructured(data) ==
    IF \/ RequiredStrFails(data, Key("name"))
       \/ /\ Key("experience") \in DOMAIN data.members
          /\ data.members[Key("experience")].type # "str"
       \/ OptionalStrFails(Get(data, Key("gender")))
       \/ OptionalIntFails(Get(data, Key("desired_rate_min")))
    THEN Raised
    ELSE [kind |-> "record",
          name |-> ValidatedStr(data.members[Key("name")], name_sentinel),
          experience |->
              IF Key("experience") \in DOMAIN data.members
              THEN ValidatedStr(data.members[Key("experience")],
                                experience_sentinel)
              ELSE <<>>,
          gender |-> validate_gender(Get(data, Key("gender"))),
          desired_rate_min |->
              validate_rate(OptionalInt(Get(data, Key("desired_rate_min"))))]

\* data with the member key set to the string s
WithMember(data, key, s) ==
    PyDict([k \in DOMAIN data.members \cup {key} |->
               IF k = key THEN PyStr(s) ELSE data.members[k]])

WithNone(data, key) ==
    PyDict([k \in DOMAIN data.members \cup {key} |->
               IF k = key THEN PyNone ELSE data.members[k]])

\* _parse_date_string(value) raises: a value that is not a string has no
\* strip method
ParseDateRaises(value) == Truthy(value) /\ value.type # "str"

\* the date handling with an unparseable start date left as it is
NormalizeProjectDatesKeepsStart(data, today) ==
    LET start == Get(data, Key("start_date"))
        parsed == _parse_date_string(start.s, today)
        d1 == WithMember(data, Key("start_date"),
                         IF ~Truthy(start) THEN today
                         ELSE IF parsed = NoneStr THEN start.s ELSE parsed)
        deadline == Get(d1, Key("application_deadline"))
        normalized == _parse_date_string(deadline.s, today)
    IN IF ~Truthy(deadline) THEN d1
       ELSE IF normalized = NoneStr
       THEN WithNone(d1, Key("application_deadline"))
       ELSE WithMember(d1, Key("application_deadline"), normalized)

\* the date handling of _extract_project_with_client
NormalizeProjectDates(data, today) ==
    LET start == Get(data, Key("start_date"))
        parsed == _parse_date_string(start.s, today)
        d1 == WithMember(data, Key("start_date"),
                         IF ~Truthy(start) \/ parsed = NoneStr
                         THEN today ELSE parsed)
        deadline == Get(d1, Key("application_deadline"))
        normalized == _parse_date_string(deadline.s, today)
    IN IF ~Truthy(deadline) THEN d1
       ELSE IF normalized = NoneStr
       THEN WithNone(d1, Key("application_deadline"))
       ELSE WithMember(d1, Key("application_deadline"), normalized)

\* the statements after the provider dispatch: `if data:` and the record
\* construction; data that is no dict has neither .get nor keyword expansion
RecordFromData(data_type, data, today) ==
    IF ~Truthy(data) THEN NoRecord
    ELSE IF data.type # "dict" THEN Raised
    ELSE IF data_type = "project"
    THEN (IF \/ ParseDateRaises(Get(data, Key("start_date")))
             \/ ParseDateRaises(Get(data, Key("application_deadline")))
          THEN Raised
          ELSE ProjectStructured(NormalizeProjectDates(data, today)))
    ELSE EngineerStructured(data)

\* ------------------------------------------------------------------------
\* ai_services/ai_client_manager.py and the provider dispatch
\* ------------------------------------------------------------------------
ExtractionConfig(provider_name, api_key, api_base_url, require_auth) ==
    [provider_name |-> provider_name, api_key |-> api_key,
     api_base_url |-> api_base_url, require_auth |-> require_auth]

\* AIClientManager._create_client: the class of the client, None for none
_create_client(config) ==
    CASE config.provider_name = "openai" /\ config.api_key -> "AsyncOpenAI"
      [] /\ config.provider_name = "deepseek"
         /\ config.api_key /\ config.api_base_url -> "httpx.AsyncClient"
      [] /\ config.provider_name = "custom" /\ config.api_base_url
         /\ config.require_auth /\ config.api_key -> "httpx.AsyncClient"
      [] /\ config.provider_name = "custom" /\ config.api_base_url
         /\ ~config.require_auth -> "NoAuthCustomAPIProcessor"
      [] config.provider_name = "custom_no_auth" /\ config.api_base_url ->
            "NoAuthCustomAPIProcessor"
      [] OTHER -> None

cache_key(service_type, use_fallback) ==
    <<service_type, IF use_fallback THEN "fallback" ELSE "primary">>

\* initialize_client without the look into the cache
initialize_client_uncached(cache, configs, service_type, use_fallback) ==
    LET key == cache_key(service_type, use_fallback)
        client == _create_client(configs[key])
    IN [client |-> client,
        cache |-> IF client # None THEN [cache EXCEPT ![key] = client]
                  ELSE cache,
        created |-> client # None]

\* AIClientManager.initialize_client, which get_client calls: the cached
\* client of the key, or a new one, cached when it could be created;
\* created tells whether _create_client made a client
initialize_client(cache, configs, service_type, use_fallback) ==
    LET key == cache_key(service_type, use_fallback)
        client == _create_client(configs[key])
    IN IF cache[key] # None
       THEN [client |-> cache[key], cache |-> cache, created |-> FALSE]
       ELSE [client |-> client,
             cache |-> [cache EXCEPT ![key] = client],
             created |-> client # None]

ReplyFailures == {"timeout", "http_error", "bad_shape"}

ProviderReply(kind, text) == [kind |-> kind, text |-> text]

\* what the dispatch on provider and client leaves in `data`, or the
\* exception it ends with
ProviderData(client, reply) ==
    IF client = "NoAuthCustomAPIProcessor"
    THEN \* extract_structured_data catches every exception and returns None
         IF reply.kind \in ReplyFailures \/ reply.kind = "null_content"
         THEN [raised |-> FALSE, data |-> PyNone]
         ELSE LET body == json_loads(reply.text)
              IN [raised |-> FALSE,
                  data |-> IF body.ok THEN extract_json(body.value) ELSE PyNone]
    ELSE IF reply.kind \in ReplyFailures \/ reply.kind = "null_content"
    THEN [raised |-> TRUE, data |-> PyNone]
    ELSE [raised |-> FALSE, data |-> _extract_json_from_text(reply.text)]

\* the value or exception of _extract_*_with_client once the provider has
\* replied
WithClientOutcome(data_type, client, reply, today) ==
    LET got == ProviderData(client, reply)
    IN IF got.raised THEN Raised
       ELSE RecordFromData(data_type, got.data, today)

\* client_type, the name the log lines of an attempt carry
ClientTypeAlwaysPrimary(use_fallback) == "primary"

ClientType(use_fallback) == IF use_fallback THEN "fallback" ELSE "primary"

LogLine(level, message, client_type) ==
    [level |-> level, message |-> message, client_type |-> client_type]

\* the try statement around an attempt: a record is returned; None and an
\* exception both lead to the next statement
ExtractTryPropagates(outcome) ==
    IF outcome.kind = "record" THEN "return"
    ELSE IF outcome.kind = "raise" THEN "raise" ELSE "continue"

ExtractTry(outcome) ==
    IF outcome.kind = "record" THEN "return" ELSE "continue"

\* ------------------------------------------------------------------------
\* Inputs of the extraction service
\* ------------------------------------------------------------------------
ProjectObject == <<LBrace, JStr(Key("title")), Colon,
                   JStr(<<"Java", "kaihatsu">>), Comma,
                   JStr(Key("start_date")), Colon,
                   JStr(<<"2024", "nen", "6", "gatsu">>), RBrace>>

EngineerObject == <<LBrace, JStr(Key("name")), Colon,
                    JStr(<<"Tanaka">>), Comma,
                    JStr(Key("experience")), Colon, JStr(<<>>), RBrace>>

SampleReplyTexts == <<
    \* 1, 2: a JSON object and nothing else
    ProjectObject,
    EngineerObject,
    \* 3: an object inside prose
    <<Prose("here"), Prose("is")>> \o ProjectObject \o <<Prose("thanks")>>,
    \* 4: a project with an immediate start, a deadline that is no date and a
    \* name as well
    <<LBrace, JStr(Key("title")), Colon, JStr(<<>>), Comma,
      JStr(Key("start_date")), Colon, JStr(<<"sokujitsu">>), Comma,
      JStr(Key("application_deadline")), Colon, JStr(<<"not", "a", "date">>),
      Comma, JStr(Key("name")), Colon, JStr(<<"Suzuki">>), RBrace>>,
    \* 5: the required field is null
    <<LBrace, JStr(Key("title")), Colon, JNull, Comma,
      JStr(Key("name")), Colon, JNull, RBrace>>,
    \* 6: the empty object
    <<LBrace, RBrace>>,
    \* 7: prose without JSON
    <<Prose("sorry")>>,
    \* 8: a JSON string
    <<JStr(<<"Java">>)>>,
    \* 9: an object that is cut off
    <<LBrace, JStr(Key("title")), Colon>>,
    \* 10: a broken object before a good one
    <<LBrace, Prose("oops"), RBrace>> \o ProjectObject
>>

ProviderReplies ==
    {ProviderReply(kind, <<>>) : kind \in ReplyFailures \cup {"null_content"}}
    \cup {ProviderReply("content", SampleReplyTexts[i]) :
             i \in DOMAIN SampleReplyTexts}

ExtractionConfigs ==
    {ExtractionConfig("openai", TRUE, FALSE, TRUE),
     ExtractionConfig("openai", FALSE, FALSE, TRUE),
     ExtractionConfig("deepseek", TRUE, TRUE, TRUE),
     ExtractionConfig("custom", FALSE, TRUE, FALSE),
     ExtractionConfig("custom_no_auth", FALSE, TRUE, TRUE)}

Dates == {<<"2026", "-", "11", "-", "04">>, <<"2024", "-", "02", "-", "29">>}

\* ------------------------------------------------------------------------
\* State of the extraction service
\* ------------------------------------------------------------------------
VARIABLES
    extraction_configs,   \* Config.get_ai_config_for_service("extraction", .)
    clients,              \* AIClientManager.clients, None for a key not cached
    ex_pc,                \* position of the extract_*_info call
    ex_data_type,         \* "project" or "engineer"
    ex_today,             \* datetime.now() during the call
    ex_attempts,          \* the requests sent to providers, with their replies
    ex_log,               \* the lines the service has logged during the call
    ex_result             \* what the call returned

evars == <<extraction_configs, clients, ex_pc, ex_data_type, ex_today,
           ex_attempts, ex_log, ex_result>>

CacheKeys == {cache_key("extraction", FALSE), cache_key("extraction", TRUE)}

Pending == [kind |-> "pending"]

NoProviderReply == ProviderReply("pending", <<>>)

ExtractionInit ==
    /\ extraction_configs \in [CacheKeys -> ExtractionConfigs]
    /\ clients = [key \in CacheKeys |-> None]
    /\ ex_pc = "idle"
    /\ ex_data_type = None
    /\ ex_today = NoneStr
    /\ ex_attempts = <<>>
    /\ ex_log = <<>>
    /\ ex_result = Pending

\* the lines _extract_*_with_client logs once the provider has replied
AttemptLog(data_type, client, reply, today, use_fallback) ==
    LET got == ProviderData(client, reply)
        client_type == ClientType(use_fallback)
        outcome == WithClientOutcome(data_type, client, reply, today)
        failed == IF outcome.kind = "raise"
                  THEN <<LogLine("error", "extraction_failed", client_type)>>
                       \o (IF data_type = "engineer"
                           THEN <<LogLine("error", "full_traceback", "")>>
                           ELSE <<>>)
                  ELSE <<>>
    IN IF got.raised \/ ~Truthy(got.data) THEN failed
       ELSE IF data_type = "engineer"
       THEN <<LogLine("info", "raw_data", client_type)>>
            \o (IF outcome.kind = "record"
                THEN <<LogLine("info", "engineer_extracted", client_type)>>
                ELSE <<>>)
            \o failed
       ELSE IF got.data.type # "dict" THEN failed
       ELSE (IF ~Truthy(Get(got.data, Key("start_date")))
             THEN <<LogLine("info", "start_date_set_to_today", "")>>
             ELSE <<>>)
            \o <<LogLine("info", "project_extracted", client_type)>>
            \o failed

\* extract_*_info after an attempt ended with `outcome`, `log` being the
\* lines logged so far
Conclude(outcome, use_fallback, log) ==
    LET step == ExtractTry(outcome)
        log2 == IF outcome.kind = "raise"
                THEN Append(log, LogLine("warning", "client_call_failed",
                                         IF use_fallback THEN "fallback"
                                         ELSE "primary"))
                ELSE log
    IN IF step = "return"
       THEN ex_pc' = "done" /\ ex_result' = outcome /\ ex_log' = log
       ELSE IF step = "raise"
       THEN ex_pc' = "done" /\ ex_result' = Raised /\ ex_log' = log
       ELSE IF ~use_fallback
       THEN ex_pc' = "fallback" /\ ex_result' = ex_result /\ ex_log' = log2
       ELSE /\ ex_pc' = "done"
            /\ ex_result' = NoRecord
            /\ ex_log' = Append(log2, LogLine("warning", "all_clients_failed", ""))

\* a caller invokes extract_project_info or extract_engineer_info
ExtractInfo(data_type, today) ==
    /\ ex_pc = "idle"
    /\ ex_pc' = "primary"
    /\ ex_data_type' = data_type
    /\ ex_today' = today
    /\ ex_attempts' = <<>>
    /\ ex_log' = <<>>
    /\ ex_result' = Pending
    /\ UNCHANGED <<extraction_configs, clients>>

\* _extract_*_with_client up to the request: the client is fetched, and
\* without a client the attempt ends with None
WithClientStart ==
    /\ ex_pc \in {"primary", "fallback"}
    /\ LET use_fallback == ex_pc = "fallback"
           key == cache_key("extraction", use_fallback)
           got == initialize_client(clients, extraction_configs,
                                    "extraction", use_fallback)
           log1 == IF use_fallback
                   THEN Append(ex_log, LogLine("info", "try_fallback_client", ""))
                   ELSE ex_log
       IN /\ clients' = got.cache
          /\ IF got.client = None
             THEN /\ Conclude(NoRecord, use_fallback,
                              Append(log1, LogLine("warning",
                                                   "client_not_initialized",
                                                   ClientType(use_fallback))))
                  /\ UNCHANGED ex_attempts
             ELSE /\ ex_pc' = IF use_fallback THEN "fallback_wait"
                              ELSE "primary_wait"
                  /\ ex_attempts' =
                        Append(ex_attempts,
                               [use_fallback |-> use_fallback,
                                provider_name |->
                                    extraction_configs[key].provider_name,
                                reply |-> NoProviderReply])
                  /\ ex_log' = Append(log1, LogLine("info", "using_client",
                                                    ClientType(use_fallback)))
                  /\ UNCHANGED ex_result
    /\ UNCHANGED <<extraction_configs, ex_data_type, ex_today>>

\* the provider replies, or fails to; the rest of _extract_*_with_client and
\* of the try statement around it
WithClientReply(reply) ==
    /\ ex_pc \in {"primary_wait", "fallback_wait"}
    /\ LET use_fallback == ex_pc = "fallback_wait"
           client == clients[cache_key("extraction", use_fallback)]
       IN /\ ex_attempts' =
                [ex_attempts EXCEPT ![Len(ex_attempts)].reply = reply]
          /\ Conclude(WithClientOutcome(ex_data_type, client, reply, ex_today),
                      use_fallback,
                      ex_log \o AttemptLog(ex_data_type, client, reply,
                                           ex_today, use_fallback))
    /\ UNCHANGED <<extraction_configs, clients, ex_data_type, ex_today>>

\* the caller has the result
ExtractReturn ==
    /\ ex_pc = "done"
    /\ ex_pc' = "idle"
    /\ ex_data_type' = None
    /\ ex_today' = NoneStr
    /\ ex_attempts' = <<>>
    /\ ex_log' = <<>>
    /\ ex_result' = Pending
    /\ UNCHANGED <<extraction_configs, clients>>

\* ------------------------------------------------------------------------
\* services/email_processing_service.py
\* ------------------------------------------------------------------------
\* What is fetched for one email and how its surroundings behave while it is
\* processed:
\*   valid           EmailData(**email_data_dict) validates
\*   classification  the category classify_email decides, "raised" when an
\*                   exception ends its try block, "ai_failed" when its AI
\*                   request fails
\*   resume          has_resume_attachments and process_resume_attachments:
\*                   no resume, resume data, no data, or an exception
\*   extraction      what extract_*_info returns: "record" or "none"
\*   fault           the repository call that raises: save_email, the
\*                   save_project/save_engineer call, or update_email_status
\*   message         str(e) of the exception raised
FetchedEmail(valid, classification, resume, extraction, fault, message) ==
    [valid |-> valid, classification |-> classification, resume |-> resume,
     extraction |-> extraction, fault |-> fault, message |-> message]

FetchedEmails ==
    {FetchedEmail(FALSE, "other", "no_resume", "none", "none",
                  "validation error")}
    \cup {FetchedEmail(TRUE, c, "no_resume", "none", f, m) :
             c \in {"other", "unclassified", "raised", "ai_failed"},
             f \in {"none"}, m \in {""}}
    \cup {FetchedEmail(TRUE, "raised", "no_resume", "none", f, m) :
             f \in {"save_email", "update_status"}, m \in {"", "connection lost"}}
    \cup {FetchedEmail(TRUE, "project_related", "no_resume", x, "none", "") :
             x \in {"record", "none"}}
    \cup {FetchedEmail(TRUE, "project_related", "no_resume", x, f, m) :
             x \in {"record", "none"},
             f \in {"save_email", "save_entity", "update_status"},
             m \in {"", "connection lost"}}
    \cup {FetchedEmail(TRUE, "engineer_related", r, x, "none", "") :
             r \in {"no_resume", "resume_data", "resume_empty"},
             x \in {"record", "none"}}
    \cup {FetchedEmail(TRUE, "engineer_related", "resume_raises", "none",
                       "none", "object has no attribute")}
    \cup {FetchedEmail(TRUE, "engineer_related", "resume_data", "none",
                       "save_entity", m) : m \in {"", "connection lost"}}

\* the category classify_email hands to process_single_email
ClassifiedAs(e) ==
    IF e.classification = "raised" THEN ClassifyExceptResult
    ELSE IF e.classification = "ai_failed" THEN AIFailureResult
    ELSE e.classification

EmailProcessingResult(email_id, email_type, processing_status, error_message) ==
    [email_id |-> email_id, email_type |-> email_type,
     processing_status |-> processing_status, error_message |-> error_message]

\* a row of receive_emails; update_email_status writes processing_error only
\* for a message that is not empty
Row(status, processing_error) ==
    [processing_status |-> status, processing_error |-> processing_error]

NoRow == Row(None, None)

Handled(returned, res, row) == [returned |-> returned, result |-> res, row |-> row]

\* the except clause of process_single_email, email_id being set: the row is
\* marked, and an update that raises leaves the function
SingleEmailExcept(e, email_id, message) ==
    IF e.fault = "update_status"
    THEN Handled(FALSE,
                 EmailProcessingResult("error", "unclassified", "error", e.message),
                 Row("processing", None))
    ELSE Handled(TRUE,
                 EmailProcessingResult(email_id, "unclassified", "error", message),
                 Row("error", IF message = "" THEN None ELSE message))

\* update_email_status followed by the return of a result
UpdateAndReturn(e, email_id, email_type, status, error_message) ==
    IF e.fault = "update_status"
    THEN SingleEmailExcept(e, email_id, e.message)
    ELSE Handled(TRUE,
                 EmailProcessingResult(email_id, email_type, status, error_message),
                 Row(status, error_message))

\* the part of _process_project_email and _process_engineer_email from the
\* extract_*_info call on
ExtractAndSave(e, email_id, email_type, failure_message) ==
    IF e.extraction = "record"
    THEN IF e.fault = "save_entity"
         THEN SingleEmailExcept(e, email_id, e.message)
         ELSE UpdateAndReturn(e, email_id, email_type, "processed", None)
    ELSE UpdateAndReturn(e, email_id, email_type, "error", failure_message)

\* process_single_email: returned is FALSE when an exception leaves it, and
\* result is then the error result of the caller
process_single_email(e, email_id) ==
    LET email_type == ClassifiedAs(e)
    IN IF e.fault = "save_email"
       THEN Handled(TRUE,
                    EmailProcessingResult("error", "unclassified", "error", e.message),
                    NoRow)
       ELSE IF email_type = "project_related"
       THEN ExtractAndSave(e, email_id, email_type,
                           "Failed to extract project information")
       ELSE IF email_type = "engineer_related"
       THEN IF e.resume = "resume_raises"
            THEN SingleEmailExcept(e, email_id, e.message)
            ELSE IF e.resume = "resume_data"
            THEN IF e.fault = "save_entity"
                 THEN SingleEmailExcept(e, email_id, e.message)
                 ELSE UpdateAndReturn(e, email_id, email_type, "processed", None)
            ELSE ExtractAndSave(e, email_id, email_type,
                                "Failed to extract engineer information")
       ELSE UpdateAndReturn(e, email_id, email_type, "processed", None)

\* the body of the loop over the fetched emails: the result appended
LoopBody(e, email_id) ==
    IF ~e.valid
    THEN Handled(FALSE,
                 EmailProcessingResult("error", "unclassified", "error", e.message),
                 NoRow)
    ELSE process_single_email(e, email_id)

MaxEmails == 2

EmailIds == <<"id-1", "id-2", "id-3">>

VARIABLES
    pr_pc,        \* position of the process_emails_for_tenant call
    pr_emails,    \* the emails fetched
    pr_index,     \* the email the loop is at
    pr_results,   \* results
    pr_rows       \* the rows of receive_emails the call wrote, by email

pvars == <<pr_pc, pr_emails, pr_index, pr_results, pr_rows>>

ProcessingInit ==
    /\ pr_pc = "idle"
    /\ pr_emails = <<>>
    /\ pr_index = 0
    /\ pr_results = <<>>
    /\ pr_rows = <<>>

\* process_emails_for_tenant up to the loop: fetch_emails has returned
FetchEmails(emails) ==
    /\ pr_pc = "idle"
    /\ pr_pc' = "loop"
    /\ pr_emails' = emails
    /\ pr_index' = 1
    /\ pr_results' = <<>>
    /\ pr_rows' = <<>>

\* no SMTP settings, or fetch_emails raised: no email was fetched
FetchNothing ==
    /\ pr_pc = "idle"
    /\ pr_pc' = "done"
    /\ pr_emails' = <<>>
    /\ pr_index' = 1
    /\ pr_results' = <<>>
    /\ pr_rows' = <<>>

\* one iteration of the loop
ProcessNextEmail ==
    /\ pr_pc = "loop"
    /\ pr_index <= Len(pr_emails)
    /\ LET handled == LoopBody(pr_emails[pr_index], EmailIds[pr_index])
       IN /\ pr_results' = Append(pr_results, handled.result)
          /\ pr_rows' = Append(pr_rows, handled.row)
    /\ pr_index' = pr_index + 1
    /\ UNCHANGED <<pr_pc, pr_emails>>

\* the loop is over: return results
LoopEnd ==
    /\ pr_pc = "loop"
    /\ pr_index > Len(pr_emails)
    /\ pr_pc' = "done"
    /\ UNCHANGED <<pr_emails, pr_index, pr_results, pr_rows>>

ProcessReturn ==
    /\ pr_pc = "done"
    /\ pr_pc' = "idle"
    /\ pr_emails' = <<>>
    /\ pr_index' = 0
    /\ pr_results' = <<>>
    /\ pr_rows' = <<>>

\* ------------------------------------------------------------------------
\* email_processor.py: EmailProcessor.process_emails_for_tenant
\* ------------------------------------------------------------------------
\* The emails fetched for one mailbox: EmailProcessor validates nothing
\* before it classifies, and a fault is here a database statement that
\* raises each time it is executed for the email.
TenantEmails == {e \in FetchedEmails : e.valid}

\* what one pass of the loop body does: raised is TRUE when an exception
\* leaves the body, row is the row of receive_emails it leaves behind
Passed(raised, row) == [raised |-> raised, row |-> row]

\* save_project and save_engineer: the UPDATE after the INSERT raises too
\* when the fault is update_status, and so does the UPDATE of the except
\* clause; when only the INSERT raises, the except clause marks the row
SaveRecord(e) ==
    IF e.fault = "update_status" THEN Passed(TRUE, Row("processing", None))
    ELSE IF e.fault = "save_entity" THEN Passed(FALSE, Row("error", e.message))
    ELSE Passed(FALSE, Row("processed", None))

\* extract_*_info followed by `if data: await self.save_*(...)`: without
\* data the row is left as save_email_to_db wrote it
ExtractThenSave(e) ==
    IF e.extraction = "record" THEN SaveRecord(e)
    ELSE Passed(FALSE, Row("processing", None))

\* the resume branch: save_engineer_from_resume returns None when its INSERT
\* raises, the row is updated only for a saved engineer, then `continue`
SaveResumes(e) ==
    IF e.fault = "save_entity" THEN Passed(FALSE, Row("processing", None))
    ELSE IF e.fault = "update_status" THEN Passed(TRUE, Row("processing", None))
    ELSE Passed(FALSE, Row("processed", None))

\* the body of `for email_data in emails`
TenantLoopBody(e) ==
    LET email_type == ClassifiedAs(e)
    IN IF e.fault = "save_email" THEN Passed(TRUE, NoRow)
       ELSE IF email_type = "project_related" THEN ExtractThenSave(e)
       ELSE IF email_type = "engineer_related"
       THEN IF e.resume = "resume_raises"
            THEN Passed(TRUE, Row("processing", None))
            ELSE IF e.resume = "resume_data" THEN SaveResumes(e)
            ELSE ExtractThenSave(e)
       ELSE IF e.fault = "update_status"
       THEN Passed(TRUE, Row("processing", None))
       ELSE Passed(FALSE, Row("processed", None))

\* process_emails_for_tenant up to the inner loop, for one mailbox:
\* fetch_emails has returned
TenantFetch(emails) ==
    /\ pr_pc = "idle"
    /\ pr_pc' = "tenant_loop"
    /\ pr_emails' = emails
    /\ pr_index' = 1
    /\ pr_results' = <<>>
    /\ pr_rows' = <<>>

\* one pass of the inner loop; an exception leaves the loop for the except
\* clause of the mailbox, which logs and goes on to the next mailbox
TenantNextEmail ==
    /\ pr_pc = "tenant_loop"
    /\ pr_index <= Len(pr_emails)
    /\ LET passed == TenantLoopBody(pr_emails[pr_index])
       IN /\ pr_rows' = Append(pr_rows, passed.row)
          /\ pr_pc' = IF passed.raised THEN "tenant_done" ELSE "tenant_loop"
    /\ pr_index' = pr_index + 1
    /\ UNCHANGED <<pr_emails, pr_results>>

\* the inner loop is over
TenantLoopEnd ==
    /\ pr_pc = "tenant_loop"
    /\ pr_index > Len(pr_emails)
    /\ pr_pc' = "tenant_done"
    /\ UNCHANGED <<pr_emails, pr_index, pr_results, pr_rows>>

\* the mailbox is done with
TenantReturn ==
    /\ pr_pc = "tenant_done"
    /\ pr_pc' = "idle"
    /\ pr_emails' = <<>>
    /\ pr_index' = 0
    /\ pr_results' = <<>>
    /\ pr_rows' = <<>>

RECURSIVE SeqsUpTo(_, _)
SeqsUpTo(S, n) ==
    IF n = 0 THEN {<<>>}
    ELSE SeqsUpTo(S, n - 1)
         \cup {Append(s, x) : s \in {t \in SeqsUpTo(S, n - 1) : Len(t) = n - 1},
                              x \in S}

\* ------------------------------------------------------------------------
\* The parsers and validators, each applied on its own
\* ------------------------------------------------------------------------
\* nesting depth of the JSON objects drawn
MaxDepth == 3

\* a JSON object written out: { members }
ObjectText(members) == <<LBrace>> \o members \o <<RBrace>>

Member(key, value) == <<JStr(Key(key)), Colon>> \o value

\* the well-formed JSON values nested at most depth deep: the leaves, the
\* empty object, and objects with a member a and possibly a second member b
RECURSIVE JsonValues(_)
JsonValues(depth) ==
    LET leaves == {<<JStr(<<"yamada">>)>>, <<JNull>>}
        inner == JsonValues(depth - 1)
    IN IF depth = 0 THEN leaves
       ELSE leaves
            \cup {ObjectText(<<>>)}
            \cup {ObjectText(Member("a", v)) : v \in inner}
            \cup {ObjectText(Member("a", v) \o <<Comma>>
                             \o Member("b", <<JStr(<<"java">>)>>)) : v \in inner}

JsonObjects == {v \in JsonValues(MaxDepth) : v[1] = LBrace}

\* prose without braces around the object (fence: a markdown code fence)
Noise == {<<>>, <<Prose("kekka")>>, <<Prose("fence"), Prose("json")>>,
          <<Prose("ijou"), Prose("desu")>>}

\* ------------------------------------------------------------------------
\* validate_language_level
\* ------------------------------------------------------------------------
\* The level strings are written character by character where they are
\* ASCII, so that `key in v_str` is the substring test it is in Python.
native_level == <<"neitibu", "reberu">>

business_level == <<"bijinesu", "reberu">>

conversational_level == <<"nichijou", "kaiwa", "reberu">>

unspecified_level == <<"fumon">>

LanguageLevels ==
    {native_level, business_level, conversational_level, unspecified_level}

Mapping(key, value) == [key |-> key, value |-> value]

\* EngineerStructured.validate_language_level: mappings, in dict order
mappings ==
    <<Mapping(<<"n", "1">>, native_level),
      Mapping(<<"n", "2">>, business_level),
      Mapping(<<"n", "3">>, conversational_level),
      Mapping(<<"n", "4">>, conversational_level),
      Mapping(<<"n", "5">>, conversational_level),
      Mapping(<<"1", "kyuu">>, native_level),
      Mapping(<<"2", "kyuu">>, business_level),
      Mapping(<<"3", "kyuu">>, conversational_level),
      Mapping(<<"4", "kyuu">>, conversational_level),
      Mapping(<<"5", "kyuu">>, conversational_level),
      Mapping(<<"neitibu">>, native_level),
      Mapping(<<"n", "a", "t", "i", "v", "e">>, native_level),
      Mapping(<<"hobo", "ryuuchou">>, business_level),
      Mapping(<<"ryuuchou">>, business_level),
      Mapping(<<"f", "l", "u", "e", "n", "t">>, business_level),
      Mapping(<<"bijinesu">>, business_level),
      Mapping(<<"b", "u", "s", "i", "n", "e", "s", "s">>, business_level),
      Mapping(<<"nichijou", "kaiwa">>, conversational_level),
      Mapping(<<"c", "o", "n", "v", "e", "r", "s", "a", "t", "i", "o", "n",
                "a", "l">>, conversational_level),
      Mapping(<<"kihon">>, conversational_level),
      Mapping(<<"b", "a", "s", "i", "c">>, conversational_level),
      Mapping(<<"shokyuu">>, conversational_level),
      Mapping(<<"chuukyuu">>, conversational_level),
      Mapping(<<"joukyuu">>, business_level),
      Mapping(<<"a", "d", "v", "a", "n", "c", "e", "d">>, business_level),
      Mapping(<<"fumon">>, unspecified_level),
      Mapping(<<"towanai">>, unspecified_level),
      Mapping(<<"nashi">>, unspecified_level),
      Mapping(<<"n", "o", "n", "e">>, unspecified_level)>>

\* ResumeData.validate_language_level: mappings, in dict order
resume_mappings ==
    <<Mapping(<<"n", "1">>, native_level),
      Mapping(<<"n", "2">>, business_level),
      Mapping(<<"n", "3">>, conversational_level),
      Mapping(<<"n", "4">>, conversational_level),
      Mapping(<<"n", "5">>, conversational_level),
      Mapping(<<"1", "kyuu">>, native_level),
      Mapping(<<"2", "kyuu">>, business_level),
      Mapping(<<"neitibu">>, native_level),
      Mapping(<<"n", "a", "t", "i", "v", "e">>, native_level),
      Mapping(<<"bijinesu">>, business_level),
      Mapping(<<"b", "u", "s", "i", "n", "e", "s", "s">>, business_level),
      Mapping(<<"nichijou", "kaiwa">>, conversational_level),
      Mapping(<<"c", "o", "n", "v", "e", "r", "s", "a", "t", "i", "o", "n",
                "a", "l">>, conversational_level),
      Mapping(<<"fumon">>, unspecified_level),
      Mapping(<<"nashi">>, unspecified_level),
      Mapping(<<"n", "o", "n", "e">>, unspecified_level)>>

\* the keys found when `key in v_str` is replaced by `key == v_str`
MappedKeysExact(table, v_str) ==
    {i \in DOMAIN table : v_str = table[i].key}

\* for key, mapped_value in table.items(): if key in v_str: the keys found
MappedKeys(table, v_str) ==
    {i \in DOMAIN table : Contains(v_str, table[i].key)}

\* re.findall(r"[1-5]", v_str): the positions of the matches
LevelDigits(v_str) ==
    {i \in DOMAIN v_str : v_str[i] \in {"1", "2", "3", "4", "5"}}

\* validate_language_level with the default of ResumeData: a string with no
\* key of the table becomes conversational whatever digits it has
validate_language_levelKeysOnly(v) ==
    LET v_str == Lower(v.s)
        found == MappedKeys(mappings, v_str)
    IN IF v.type = "None" THEN PyNone
       ELSE IF found # {} THEN PyStr(mappings[SetMin(found)].value)
       ELSE PyStr(conversational_level)

\* EngineerStructured.validate_language_level(v)
validate_language_level(v) ==
    LET v_str == Lower(v.s)
        found == MappedKeys(mappings, v_str)
        numbers == LevelDigits(v_str)
        level == v_str[SetMin(numbers)]
    IN IF v.type = "None" THEN PyNone
       ELSE IF found # {} THEN PyStr(mappings[SetMin(found)].value)
       ELSE IF numbers # {}
       THEN PyStr(IF level = "1" THEN native_level
                  ELSE IF level = "2" THEN business_level
                  ELSE conversational_level)
       ELSE IF AnyIn({<<"joukyuu">>, <<"koukyuu">>, <<"1", "kyuu">>,
                      <<"n", "1">>, <<"neitibu">>,
                      <<"n", "a", "t", "i", "v", "e">>}, v_str)
       THEN PyStr(native_level)
       ELSE IF AnyIn({<<"bijinesu">>,
                      <<"b", "u", "s", "i", "n", "e", "s", "s">>,
                      <<"2", "kyuu">>, <<"n", "2">>, <<"ryuuchou">>,
                      <<"f", "l", "u", "e", "n", "t">>}, v_str)
       THEN PyStr(business_level)
       ELSE IF AnyIn({<<"kaiwa">>,
                      <<"c", "o", "n", "v", "e", "r", "s", "a", "t", "i", "o",
                        "n", "a", "l">>,
                      <<"3", "kyuu">>, <<"4", "kyuu">>, <<"n", "3">>,
                      <<"n", "4">>}, v_str)
       THEN PyStr(conversational_level)
       ELSE IF AnyIn({<<"fumon">>, <<"towanai">>, <<"nashi">>,
                      <<"n", "o", "n", "e">>}, v_str)
       THEN PyStr(unspecified_level)
       ELSE PyStr(conversational_level)

\* ResumeData.validate_language_level(v)
resume_validate_language_level(v) ==
    LET v_str == Lower(v.s)
        found == MappedKeys(resume_mappings, v_str)
    IN IF v.type = "None" THEN PyNone
       ELSE IF found # {} THEN PyStr(resume_mappings[SetMin(found)].value)
       ELSE PyStr(conversational_level)

\* the number of pieces a level string is put together from
MaxPieces == 3

LevelPieces ==
    {<<"N">>, <<"1">>, <<"3">>, <<"6">>, <<"kyuu">>, <<"neitibu">>,
     <<"bijinesu">>, <<"nichijou", "kaiwa">>, <<"kaiwa">>, <<"reberu">>,
     <<"fumon">>, <<"koukyuu">>, <<"perapera">>, <<"n", "o", "n", "e">>}

\* the strings put together from at most n of the pieces
RECURSIVE Joined(_, _)
Joined(pieces, n) ==
    IF n = 0 THEN {<<>>}
    ELSE Joined(pieces, n - 1)
         \cup {s \o piece : s \in Joined(pieces, n - 1), piece \in pieces}

\* the level words of the mapping tables written in ASCII, and words of no
\* table
LevelWords ==
    {<<"N", "1">>, <<"N", "2">>, <<"N", "3">>, <<"N", "4">>, <<"N", "5">>,
     <<"n", "a", "t", "i", "v", "e">>, <<"f", "l", "u", "e", "n", "t">>,
     <<"b", "u", "s", "i", "n", "e", "s", "s">>,
     <<"c", "o", "n", "v", "e", "r", "s", "a", "t", "i", "o", "n", "a", "l">>,
     <<"b", "a", "s", "i", "c">>, <<"n", "o", "n", "e">>,
     <<"a", "d", "v", "a", "n", "c", "e", "d">>,
     <<"perapera">>, <<"t", "o", "e", "i", "c">>}

\* what stands before and after a level word
LevelAffixes == {<<>>, <<"perapera">>, <<"SP", "6">>, <<"SP", "2">>,
                 <<"SP", "1", "5", "0">>}

LevelTexts ==
    {before \o word \o after :
        before \in {<<>>, <<"perapera">>}, word \in LevelWords,
        after \in LevelAffixes}

LevelInputs ==
    {PyNone} \cup {PyStr(s) : s \in Joined(LevelPieces, MaxPieces)}
            \cup {PyStr(s) : s \in LevelTexts}

\* the date strings handed to _parse_date_string: year, separator, month
\* and what follows the month; runs of digits are never adjacent
MonthWords == {"6", "06", "2", "02", "12", "13"}

DayWords == {"1", "15", "29", "30", "31"}

AfterMonth ==
    {<<>>, <<"gatsu">>, <<"koro">>, <<"gatsu", "koro">>}
    \cup {<<sep, d>> \o rest : sep \in {"gatsu", "-", "/"}, d \in DayWords,
                              rest \in {<<>>, <<"nichi">>, <<"koro">>}}

DateTexts ==
    {<<>>, <<"not", "a", "date">>, <<"asap">>, <<"6", "gatsu">>,
     <<"raigetsu">>, <<"2024">>, <<"2024", "nen">>, <<"sokujitsu", "kanou">>}
    \cup immediate_words
    \cup {<<y, sep, m>> \o rest : y \in YearWords, sep \in {"nen", "-", "/"},
                                 m \in MonthWords, rest \in AfterMonth}

\* the raw extracted maps handed to the record constructors: each key is
\* missing or has one of the values drawn for it
Missing == [type |-> "missing", s |-> <<>>, members |-> <<>>]

RawMap(choice) ==
    PyDict([k \in {key \in DOMAIN choice : choice[key] # Missing} |->
               choice[k]])

RequiredValues(s) == {Missing, PyNone, PyStr(<<>>), PyStr(s)}

GenderValues ==
    {Missing, PyNone, PyStr(<<"F">>), PyStr(<<"M">>),
     PyStr(<<"f", "e", "m", "a", "l", "e">>), PyStr(female),
     PyStr(<<"fumei">>), PyStr(<<"m", "a", "l", "e">>), PyStr(male),
     PyStr(<<"onna">>), PyStr(<<"otoko">>)}

RateValues ==
    {Missing, PyNone, PyInt(<<"4", "8">>), PyStr(<<"4", "8">>),
     PyStr(<<"4", "8", "man", "en">>), PyStr(<<"man", "en">>),
     PyStr(<<"4", "8", "~", "5", "5", "man">>)}

EngineerMaps ==
    {RawMap(Key("name") :> n @@ Key("experience") :> e
            @@ Key("gender") :> g @@ Key("desired_rate_min") :> r) :
        n \in RequiredValues(<<"yamada">>),
        e \in RequiredValues(<<"3", "nen">>),
        g \in GenderValues, r \in RateValues}

ProjectMaps ==
    {RawMap(Key("title") :> t @@ Key("start_date") :> d) :
        t \in RequiredValues(<<"java", "kaihatsu">>),
        d \in {Missing, PyNone, PyStr(<<"2024", "-", "06", "-", "01">>)}}

\* smart_content_extraction on the lengths: a body is its lines
\* (body_text.split("\n")), a line is its number of characters and the
\* number of important keywords it contains
MaxLines == 3

BodyLine(length, line_score) == [length |-> length, line_score |-> line_score]

LineLengths == {0, 150, 900, 2001}

BodyLines ==
    {BodyLine(l, k) : l \in LineLengths, k \in {0, 1, 2}} \ {BodyLine(0, 1), BodyLine(0, 2)}

LineSeqs == UNION {[1..n -> BodyLines] : n \in 1..MaxLines}

\* len("\n".join(lines[a..b]))
RECURSIVE JoinedLength(_, _, _)
JoinedLength(lines, a, b) ==
    IF a > b THEN 0
    ELSE IF a = b THEN lines[a].length
    ELSE lines[a].length + 1 + JoinedLength(lines, a + 1, b)

\* the paragraph kept for an important line: the line, the one before and
\* the one after
ContextLength(lines, i) ==
    JoinedLength(lines, IF i > 1 THEN i - 1 ELSE 1,
                 IF i < Len(lines) THEN i + 1 ELSE Len(lines))

\* len(extracted_content) and whether it is the body itself
extracted_content(lines) ==
    LET body_length == JoinedLength(lines, 1, Len(lines))
        important == {i \in DOMAIN lines : lines[i].line_score >= 2}
        first == SetMin(important)
        second == SetMin(important \ {first})
        parts == IF important = {} THEN 0
                 ELSE 9 + ContextLength(lines, first)
                      + (IF important \ {first} = {} THEN 0
                         ELSE 1 + ContextLength(lines, second))
    IN IF body_length <= 2000
       THEN [length |-> body_length, body |-> TRUE, paragraphs |-> 0]
       ELSE [length |-> 800 + parts + 9 + 300, body |-> FALSE,
             paragraphs |-> IF Cardinality(important) > 2 THEN 2
                            ELSE Cardinality(important)]

NoExcerpt == [length |-> 0, body |-> FALSE, paragraphs |-> 0]

\* the raw project maps whose dates _extract_project_with_client normalizes
StartDateValues ==
    {Missing, PyNone, PyInt(<<"2", "0", "2", "4">>)}
    \cup {PyStr(d) : d \in {<<>>, <<"not", "a", "date">>, <<"sokujitsu">>,
                            <<"raigetsu">>, <<"2024", "nen", "6", "gatsu">>,
                            <<"2024", "nen", "13", "gatsu">>,
                            <<"2025", "-", "02", "-", "29">>,
                            <<"2024", "-", "02", "-", "29">>,
                            <<"2024", "/", "6", "/", "31">>,
                            <<"2025", "/", "6", "/", "15">>,
                            <<"2024", "-", "6", "-", "1">>}}

DeadlineValues ==
    {Missing, PyNone, PyInt(<<"2", "0", "2", "4">>)}
    \cup {PyStr(d) : d \in {<<>>, <<"not", "a", "date">>, <<"sokujitsu">>,
                            <<"2024", "nen", "6", "gatsu", "30", "nichi">>,
                            <<"2024", "-", "06", "-", "31">>}}

DatedProjectMaps ==
    {RawMap(Key("title") :> PyStr(<<"java", "kaihatsu">>)
            @@ Key("start_date") :> d @@ Key("application_deadline") :> a) :
        d \in StartDateValues, a \in DeadlineValues}

VARIABLES
    nz_call,            \* the function applied last
    json_embedded,      \* the JSON object put into the text
    json_text,          \* the text handed to _extract_json_from_text
    json_result,        \* what _extract_json_from_text returned
    level_input,        \* the value handed to validate_language_level
    level_output,       \* what EngineerStructured.validate_language_level returned
    level_resume,       \* what ResumeData.validate_language_level returned
    date_input,         \* the string handed to _parse_date_string
    date_today,         \* datetime.now().strftime("%Y-%m-%d") at the call
    date_output,        \* what _parse_date_string returned
    record_data,        \* the raw map handed to a record constructor
    record_output,      \* the record constructed, or Raised
    body_lines,         \* the lines of the body handed to smart_content_extraction
    excerpt             \* the length of what smart_content_extraction returned

jvars == <<json_embedded, json_text, json_result>>

lvars == <<level_input, level_output, level_resume>>

dvars == <<date_input, date_today, date_output>>

rvars == <<record_data, record_output>>

xvars == <<body_lines, excerpt>>

nvars == <<nz_call, jvars, lvars, dvars, rvars, xvars>>

JsonIdle(embedded, text, res) ==
    /\ embedded = <<>>
    /\ text = <<>>
    /\ res = PyNone

LevelIdle(input, output, resume) ==
    /\ input = PyNone
    /\ output = PyNone
    /\ resume = PyNone

DateIdle(input, today, output) ==
    /\ input = <<>>
    /\ today = NoneStr
    /\ output = NoneStr

RecordIdle(data, output) ==
    /\ data = PyNone
    /\ output = NoRecord

ExcerptIdle(lines, extracted) ==
    /\ lines = <<>>
    /\ extracted = NoExcerpt

NormalizerInit ==
    /\ nz_call = "idle"
    /\ ExcerptIdle(body_lines, excerpt)
    /\ RecordIdle(record_data, record_output)
    /\ JsonIdle(json_embedded, json_text, json_result)
    /\ LevelIdle(level_input, level_output, level_resume)
    /\ DateIdle(date_input, date_today, date_output)

\* _extract_json_from_text(prefix + object + suffix)
ExtractJsonFromText(prefix, object, suffix) ==
    /\ nz_call = "idle"
    /\ nz_call' = "_extract_json_from_text"
    /\ json_embedded' = object
    /\ json_text' = prefix \o object \o suffix
    /\ json_result' = _extract_json_from_text(prefix \o object \o suffix)
    /\ UNCHANGED <<lvars, dvars, rvars, xvars>>

\* both validators applied to the same value
ValidateLanguageLevel(v) ==
    /\ nz_call = "idle"
    /\ nz_call' = "validate_language_level"
    /\ level_input' = v
    /\ level_output' = validate_language_level(v)
    /\ level_resume' = resume_validate_language_level(v)
    /\ UNCHANGED <<jvars, dvars, rvars, xvars>>

\* _parse_date_string(date_str) on the day today
ParseDateString(date_str, today) ==
    /\ nz_call = "idle"
    /\ nz_call' = "_parse_date_string"
    /\ date_input' = date_str
    /\ date_today' = today
    /\ date_output' = _parse_date_string(date_str, today)
    /\ UNCHANGED <<jvars, lvars, rvars, xvars>>

\* the statements of _extract_project_with_client that follow the provider
\* dispatch, on the extracted data
ProjectFromData(data, today) ==
    /\ nz_call = "idle"
    /\ nz_call' = "_extract_project_with_client"
    /\ record_data' = data
    /\ date_today' = today
    /\ record_output' = RecordFromData("project", data, today)
    /\ UNCHANGED <<jvars, lvars, date_input, date_output, xvars>>

\* smart_content_extraction on an email with this body
SmartContentExtraction(lines) ==
    /\ nz_call = "idle"
    /\ nz_call' = "smart_content_extraction"
    /\ body_lines' = lines
    /\ excerpt' = extracted_content(lines)
    /\ UNCHANGED <<jvars, lvars, dvars, rvars>>

\* EngineerStructured(**data)
ConstructEngineer(data) ==
    /\ nz_call = "idle"
    /\ nz_call' = "EngineerStructured"
    /\ record_data' = data
    /\ record_output' = EngineerStructured(data)
    /\ UNCHANGED <<jvars, lvars, dvars, xvars>>

\* ProjectStructured(**data)
ConstructProject(data) ==
    /\ nz_call = "idle"
    /\ nz_call' = "ProjectStructured"
    /\ record_data' = data
    /\ record_output' = ProjectStructured(data)
    /\ UNCHANGED <<jvars, lvars, dvars, xvars>>

\* ------------------------------------------------------------------------
\* AIClientManager shared by concurrent tasks
\* ------------------------------------------------------------------------
\* The tasks run on one event loop: a task runs until it awaits.  get_client
\* has no await, so each call is one step.  close_all_clients awaits
\* client.aclose() for every httpx client and is interleaved there.
MaxTasks == 2

\* get_client calls in one run
MaxRequests == 3

\* close_all_clients calls in one run that reach clear()
MaxCloses == 2

Tasks == 1..MaxTasks

NoClientHeld == [key |-> <<>>, client |-> None, id |-> 0, period |-> 0]

VARIABLES
    client_ids,       \* the identity of each cached client, 0 for none
    client_order,     \* the keys of AIClientManager.clients in dict order
    created,          \* clients created for each key since the last clear()
    period,           \* how many times clear() has run
    requests,         \* get_client calls made so far
    held,             \* what get_client returned to each task
    close_pc,         \* position of the close_all_clients call
    close_pos,        \* index in client_order of the client being closed
    close_size,       \* size of the dict when the iteration started
    closed            \* the identities of the clients aclose() was called on

mvars == <<client_ids, client_order, created, period, requests, held,
           close_pc, close_pos, close_size, closed>>

ManagerInit ==
    /\ client_ids = [key \in CacheKeys |-> 0]
    /\ client_order = <<>>
    /\ created = [key \in CacheKeys |-> 0]
    /\ period = 0
    /\ requests = 0
    /\ held = [task \in Tasks |-> NoClientHeld]
    /\ close_pc = "idle"
    /\ close_pos = 0
    /\ close_size = 0
    /\ closed = {}

\* a task calls get_client("extraction", use_fallback) and keeps the client
\* for its request
GetClient(task, use_fallback) ==
    /\ requests < MaxRequests
    /\ held[task] = NoClientHeld
    /\ LET key == cache_key("extraction", use_fallback)
           got == initialize_client(clients, extraction_configs,
                                    "extraction", use_fallback)
           id == IF got.created THEN requests + 1 ELSE client_ids[key]
       IN /\ clients' = got.cache
          /\ client_ids' = [client_ids EXCEPT ![key] = id]
          /\ client_order' = IF got.created THEN Append(client_order, key)
                             ELSE client_order
          /\ created' = IF got.created
                        THEN [created EXCEPT ![key] = @ + 1]
                        ELSE created
          /\ held' = [held EXCEPT ![task] =
                         [key |-> key, client |-> got.client, id |-> id,
                          period |-> period]]
    /\ requests' = requests + 1
    /\ UNCHANGED <<period, close_pc, close_pos, close_size, closed>>
    /\ UNCHANGED <<extraction_configs, ex_pc, ex_data_type, ex_today,
                   ex_attempts, ex_log, ex_result>>

\* the task's request is over
ReleaseClient(task) ==
    /\ held[task] # NoClientHeld
    /\ held' = [held EXCEPT ![task] = NoClientHeld]
    /\ UNCHANGED <<client_ids, client_order, created, period, requests,
                   close_pc, close_pos, close_size, closed>>
    /\ UNCHANGED evars

\* the loop of close_all_clients from position pos on: it stops at the next
\* httpx client to await aclose(), and after the last client it clears both
\* dicts
CloseFrom(pos) ==
    LET httpx == {i \in pos..Len(client_order) :
                     clients[client_order[i]] = "httpx.AsyncClient"}
    IN IF httpx # {}
       THEN /\ close_pc' = "aclose"
            /\ close_pos' = SetMin(httpx)
            /\ closed' = closed \cup {client_ids[client_order[SetMin(httpx)]]}
            /\ UNCHANGED <<clients, client_ids, client_order, created, period>>
       ELSE /\ close_pc' = "idle"
            /\ close_pos' = 0
            /\ closed' = closed
            /\ clients' = [key \in CacheKeys |-> None]
            /\ client_ids' = [key \in CacheKeys |-> 0]
            /\ client_order' = <<>>
            /\ created' = [key \in CacheKeys |-> 0]
            /\ period' = period + 1

\* close_all_clients is called
CloseAllClients ==
    /\ close_pc = "idle"
    /\ period < MaxCloses
    /\ close_size' = Len(client_order)
    /\ CloseFrom(1)
    /\ UNCHANGED <<requests, held>>
    /\ UNCHANGED <<extraction_configs, ex_pc, ex_data_type, ex_today,
                   ex_attempts, ex_log, ex_result>>

\* aclose() has returned: the iteration goes on, and raises RuntimeError
\* when the dict has changed size in the meantime
CloseResume ==
    /\ close_pc = "aclose"
    /\ IF Len(client_order) # close_size
       THEN /\ close_pc' = "idle"
            /\ close_pos' = 0
            /\ UNCHANGED <<clients, client_ids, client_order, created, period,
                           closed>>
       ELSE CloseFrom(close_pos + 1)
    /\ UNCHANGED <<close_size, requests, held>>
    /\ UNCHANGED <<extraction_configs, ex_pc, ex_data_type, ex_today,
                   ex_attempts, ex_log, ex_result>>

\* ------------------------------------------------------------------------
\* classify_email called by concurrent tasks on one EmailClassifier
\* ------------------------------------------------------------------------
\* classify_email from its first statement to its first await: it returns a
\* category, or it has sent the classification request and waits
Returned(value) == [kind |-> "return", value |-> value]

Awaiting == [kind |-> "await", value |-> None]

ClassifySync(e, config, client) ==
    IF SpamRaises(e) THEN Returned(ClassifyExceptResult)
    ELSE IF check_spam_indicators(e) THEN Returned("unclassified")
    ELSE LET sa == analyze_email_structure(e)
         IN IF sa.definitive_type # None THEN Returned(sa.definitive_type)
            ELSE IF AttachmentsRaise(e) THEN Returned(ClassifyExceptResult)
            ELSE IF analyze_attachments(e).confidence > 80
            THEN Returned(analyze_attachments(e).strong_type)
            ELSE IF SenderRaises(e) THEN Returned(ClassifyExceptResult)
            ELSE LET fs == FinalScores(e, sa)
                 IN IF KeywordDecision(fs) # None
                    THEN Returned(KeywordDecision(fs))
                    ELSE IF ~client
                    THEN Returned(_fallback_classification(
                                      smart_content_extraction(e),
                                      fs.project, fs.engineer))
                    ELSE IF config.provider_name \in AIRequestProviders
                    THEN Awaiting
                    ELSE Returned(AIFailureResult)

\* the category classify_email returns when it runs alone and the provider
\* answers its request, if it sends one, with reply
ClassifyAlone(e, config, client, reply) ==
    LET sync == ClassifySync(e, config, client)
    IN IF sync.kind = "return" THEN sync.value ELSE AIResult(reply)

\* the locals of classify_email that are alive while it awaits the reply
Locals(structure, attachments, final_scores) ==
    [structure_analysis |-> structure, attachment_analysis |-> attachments,
     scores |-> final_scores]

NoLocals == Locals(NoStructure, NoAttachments, NoScores)

LocalsAtAwait(e) ==
    Locals(analyze_email_structure(e), analyze_attachments(e),
           FinalScores(e, analyze_email_structure(e)))

\* the locals kept in one place for all invocations
StoreLocalsShared(frames, task, locals) == [t \in DOMAIN frames |-> locals]

\* the locals are assigned in the frame of the invocation
StoreLocals(frames, task, locals) == [frames EXCEPT ![task] = locals]

\* the emails the tasks classify: decided by the structure, by the keywords,
\* and left to the provider
ConcurrentEmails ==
    {[subject |-> <<>>, body_text |-> b, sender_email |-> se.sender_email,
      sender_name |-> se.sender_name, attachments |-> <<>>] :
        b \in {<<>>, SampleLines[1], SampleLines[3], SampleLines[8]},
        se \in {s \in Senders : s.sender_name \in {<<"tanaka">>, <<"sato">>}}}

ConcurrentReplies ==
    {r \in AIReplies :
        \/ r.kind = "timeout"
        \/ /\ r.kind = "json"
           /\ r.confidence = "number"
           /\ r.category \in {<<"engineer", "_related">>,
                              <<"project", "_related">>}
        \/ r.kind = "text" /\ r.category = <<"sorry">>}

VARIABLES
    task_pc,          \* position of each task's classify_email call
    task_email,       \* its argument
    task_locals,      \* its locals
    task_reply,       \* the provider's answer to its request
    task_result       \* the value it returned

kvars == <<task_pc, task_email, task_locals, task_reply, task_result>>

TasksInit ==
    /\ task_pc = [task \in Tasks |-> "idle"]
    /\ task_email = [task \in Tasks |-> NoEmail]
    /\ task_locals = [task \in Tasks |-> NoLocals]
    /\ task_reply = [task \in Tasks |-> NoReply]
    /\ task_result = [task \in Tasks |-> None]

\* a task calls classify_email(e) and runs it to the return or to the await
TaskClassify(task, e) ==
    /\ task_pc[task] = "idle"
    /\ task_email' = [task_email EXCEPT ![task] = e]
    /\ LET sync == ClassifySync(e, ai_config, ai_client)
       IN IF sync.kind = "return"
          THEN /\ task_pc' = [task_pc EXCEPT ![task] = "done"]
               /\ task_result' = [task_result EXCEPT ![task] = sync.value]
               /\ UNCHANGED task_locals
          ELSE /\ task_pc' = [task_pc EXCEPT ![task] = "ai_wait"]
               /\ task_locals' = StoreLocals(task_locals, task, LocalsAtAwait(e))
               /\ UNCHANGED task_result
    /\ UNCHANGED task_reply

\* the provider answers the task's request and the call returns
TaskResponse(task, reply) ==
    /\ task_pc[task] = "ai_wait"
    /\ task_pc' = [task_pc EXCEPT ![task] = "done"]
    /\ task_reply' = [task_reply EXCEPT ![task] = reply]
    /\ task_result' = [task_result EXCEPT ![task] = AIResult(reply)]
    /\ UNCHANGED <<task_email, task_locals>>

\* the caller has taken the result
TaskReturn(task) ==
    /\ task_pc[task] = "done"
    /\ task_pc' = [task_pc EXCEPT ![task] = "idle"]
    /\ task_email' = [task_email EXCEPT ![task] = NoEmail]
    /\ task_locals' = [task_locals EXCEPT ![task] = NoLocals]
    /\ task_reply' = [task_reply EXCEPT ![task] = NoReply]
    /\ task_result' = [task_result EXCEPT ![task] = None]

\* the function returns; its arguments and result are dropped
NormalizeReturn ==
    /\ nz_call # "idle"
    /\ nz_call' = "idle"
    /\ JsonIdle(json_embedded', json_text', json_result')
    /\ LevelIdle(level_input', level_output', level_resume')
    /\ DateIdle(date_input', date_today', date_output')
    /\ RecordIdle(record_data', record_output')
    /\ ExcerptIdle(body_lines', excerpt')

\* ------------------------------------------------------------------------
\* Specifications
\* ------------------------------------------------------------------------
vars == <<cvars, evars, pvars, nvars, mvars, kvars>>

ExtractionIdle ==
    /\ extraction_configs = [key \in CacheKeys |->
                                ExtractionConfig("openai", TRUE, FALSE, TRUE)]
    /\ clients = [key \in CacheKeys |-> None]
    /\ ex_pc = "idle"
    /\ ex_data_type = None
    /\ ex_today = NoneStr
    /\ ex_attempts = <<>>
    /\ ex_log = <<>>
    /\ ex_result = Pending

\* the classifier, called again and again
Init ==
    /\ ClassifierInit /\ ExtractionIdle /\ ProcessingInit
    /\ NormalizerInit /\ ManagerInit /\ TasksInit

Next ==
    \/ pc = "idle" /\ (\E e \in Emails : ClassifyEmail(e))
          /\ UNCHANGED <<evars, pvars, nvars, mvars, kvars>>
    \/ SpamStage /\ UNCHANGED <<evars, pvars, nvars, mvars, kvars>>
    \/ StructureStage /\ UNCHANGED <<evars, pvars, nvars, mvars, kvars>>
    \/ AttachmentStage /\ UNCHANGED <<evars, pvars, nvars, mvars, kvars>>
    \/ KeywordStage /\ UNCHANGED <<evars, pvars, nvars, mvars, kvars>>
    \/ AICall /\ UNCHANGED <<evars, pvars, nvars, mvars, kvars>>
    \/ pc = "ai_wait" /\ (\E reply \in AIReplies : AIResponse(reply))
          /\ UNCHANGED <<evars, pvars, nvars, mvars, kvars>>
    \/ FallbackStage /\ UNCHANGED <<evars, pvars, nvars, mvars, kvars>>
    \/ ClassifyReturn /\ UNCHANGED <<evars, pvars, nvars, mvars, kvars>>

Spec == Init /\ [][Next]_vars

ClassifierIdle ==
    /\ ai_config = [provider_name |-> "openai", api_key |-> TRUE,
                    api_base_url |-> FALSE]
    /\ ai_client = InitAIClient(ai_config)
    /\ pc = "idle"
    /\ email_data = NoEmail
    /\ structure_analysis = NoStructure
    /\ attachment_analysis = NoAttachments
    /\ scores = NoScores
    /\ stages = <<>>
    /\ ai_calls = 0
    /\ ai_requests = 0
    /\ ai_reply = NoReply
    /\ result = None

\* the extraction service, called again and again
ExtractInit ==
    /\ ExtractionInit /\ ClassifierIdle /\ ProcessingInit
    /\ NormalizerInit /\ ManagerInit /\ TasksInit

ExtractNext ==
    \/ ex_pc = "idle"
          /\ (\E data_type \in {"project", "engineer"}, today \in Dates :
                 ExtractInfo(data_type, today))
          /\ UNCHANGED <<cvars, pvars, nvars, mvars, kvars>>
    \/ WithClientStart /\ UNCHANGED <<cvars, pvars, nvars, mvars, kvars>>
    \/ ex_pc \in {"primary_wait", "fallback_wait"}
          /\ (\E reply \in ProviderReplies : WithClientReply(reply))
          /\ UNCHANGED <<cvars, pvars, nvars, mvars, kvars>>
    \/ ExtractReturn /\ UNCHANGED <<cvars, pvars, nvars, mvars, kvars>>

SpecExtract == ExtractInit /\ [][ExtractNext]_vars

\* the processing service, called again and again
ProcessInit ==
    /\ ProcessingInit /\ ClassifierIdle /\ ExtractionIdle
    /\ NormalizerInit /\ ManagerInit /\ TasksInit

ProcessNext ==
    \/ pr_pc = "idle"
          /\ (\E emails \in SeqsUpTo(FetchedEmails, MaxEmails) :
                 FetchEmails(emails))
          /\ UNCHANGED <<cvars, evars, nvars, mvars, kvars>>
    \/ FetchNothing /\ UNCHANGED <<cvars, evars, nvars, mvars, kvars>>
    \/ ProcessNextEmail /\ UNCHANGED <<cvars, evars, nvars, mvars, kvars>>
    \/ LoopEnd /\ UNCHANGED <<cvars, evars, nvars, mvars, kvars>>
    \/ ProcessReturn /\ UNCHANGED <<cvars, evars, nvars, mvars, kvars>>
    \/ (\E emails \in SeqsUpTo(TenantEmails, MaxEmails) : TenantFetch(emails))
          /\ UNCHANGED <<cvars, evars, nvars, mvars, kvars>>
    \/ TenantNextEmail /\ UNCHANGED <<cvars, evars, nvars, mvars, kvars>>
    \/ TenantLoopEnd /\ UNCHANGED <<cvars, evars, nvars, mvars, kvars>>
    \/ TenantReturn /\ UNCHANGED <<cvars, evars, nvars, mvars, kvars>>

SpecProcess == ProcessInit /\ [][ProcessNext]_vars

\* the parsers and validators, applied to one input after another
NormalizeInit ==
    /\ NormalizerInit /\ ClassifierIdle /\ ExtractionIdle
    /\ ProcessingInit /\ ManagerInit /\ TasksInit

NormalizeNext ==
    \/ (\E prefix \in Noise, object \in JsonObjects, suffix \in Noise :
           ExtractJsonFromText(prefix, object, suffix))
          /\ UNCHANGED <<cvars, evars, pvars, mvars, kvars>>
    \/ (\E v \in LevelInputs : ValidateLanguageLevel(v))
          /\ UNCHANGED <<cvars, evars, pvars, mvars, kvars>>
    \/ (\E date_str \in DateTexts, today \in Dates :
           ParseDateString(date_str, today))
          /\ UNCHANGED <<cvars, evars, pvars, mvars, kvars>>
    \/ (\E data \in EngineerMaps : ConstructEngineer(data))
          /\ UNCHANGED <<cvars, evars, pvars, mvars, kvars>>
    \/ (\E data \in ProjectMaps : ConstructProject(data))
          /\ UNCHANGED <<cvars, evars, pvars, mvars, kvars>>
    \/ (\E data \in DatedProjectMaps, today \in Dates :
           ProjectFromData(data, today))
          /\ UNCHANGED <<cvars, evars, pvars, mvars, kvars>>
    \/ (\E lines \in LineSeqs : SmartContentExtraction(lines))
          /\ UNCHANGED <<cvars, evars, pvars, mvars, kvars>>
    \/ NormalizeReturn /\ UNCHANGED <<cvars, evars, pvars, mvars, kvars>>

SpecNormalize == NormalizeInit /\ [][NormalizeNext]_vars

\* tasks that share the client manager
ManagerSpecInit ==
    /\ ManagerInit /\ ExtractionInit /\ ClassifierIdle
    /\ ProcessingInit /\ NormalizerInit /\ TasksInit

ManagerNext ==
    \/ (\E task \in Tasks, use_fallback \in BOOLEAN :
           GetClient(task, use_fallback))
          /\ UNCHANGED <<cvars, pvars, nvars, kvars>>
    \/ (\E task \in Tasks : ReleaseClient(task))
          /\ UNCHANGED <<cvars, pvars, nvars, kvars>>
    \/ CloseAllClients /\ UNCHANGED <<cvars, pvars, nvars, kvars>>
    \/ CloseResume /\ UNCHANGED <<cvars, pvars, nvars, kvars>>

SpecManager == ManagerSpecInit /\ [][ManagerNext]_vars

\* tasks that share the classifier
ConcurrentInit ==
    /\ TasksInit /\ ClassifierInit /\ ExtractionIdle /\ ProcessingInit
    /\ NormalizerInit /\ ManagerInit

ConcurrentNext ==
    \/ (\E task \in Tasks, e \in ConcurrentEmails : TaskClassify(task, e))
          /\ UNCHANGED <<cvars, evars, pvars, nvars, mvars>>
    \/ (\E task \in Tasks, reply \in ConcurrentReplies :
           TaskResponse(task, reply))
          /\ UNCHANGED <<cvars, evars, pvars, nvars, mvars>>
    \/ (\E task \in Tasks : TaskReturn(task))
          /\ UNCHANGED <<cvars, evars, pvars, nvars, mvars>>

SpecConcurrent == ConcurrentInit /\ [][ConcurrentNext]_vars

\* ------------------------------------------------------------------------
\* Properties of classify_email
\* ------------------------------------------------------------------------
WellFormed(e) ==
    /\ e.subject # NoneStr
    /\ e.body_text # NoneStr
    /\ e.sender_email # NoneStr

AIFailures == {"timeout", "http_error", "bad_shape"}

LastStage == stages[Len(stages)]

\* C1: a finished classify_email call has returned exactly one of the four
\* categories, whatever the email (missing fields included) and whatever the
\* AI provider did; it has returned neither null nor an exception.
C1_ResultIsCategory == pc = "done" => result \in EmailType

\* a call on an email without a subject, which ended in the except clause
C1_Witness ==
    /\ pc = "done"
    /\ email_data.subject = NoneStr
    /\ result = "unclassified"

StageOrder == <<"spam", "structure", "attachment", "keyword">>

\* the stage raised, and the except clause of classify_email decided
StageRaised(stage) ==
    \/ stage = "spam" /\ SpamRaises(email_data)
    \/ stage = "attachment" /\ AttachmentsRaise(email_data)
    \/ stage = "keyword" /\ SenderRaises(email_data)

\* the category the stage is terminal with, None when it falls through
StageCategory(stage) ==
    CASE stage = "spam" ->
            IF check_spam_indicators(email_data) THEN "unclassified" ELSE None
      [] stage = "structure" -> structure_analysis.definitive_type
      [] stage = "attachment" ->
            IF attachment_analysis.confidence > 80
            THEN attachment_analysis.strong_type ELSE None
      [] stage = "keyword" ->
            IF scores.engineer > scores.project + 5 /\ scores.engineer > 10
            THEN "engineer_related"
            ELSE IF scores.project > scores.engineer + 5 /\ scores.project > 10
            THEN "project_related"
            ELSE None
      [] stage = "ai" -> result
      [] stage = "fallback" -> result

\* C2: the stages of one call run in the order spam, structure, attachment,
\* keyword, then the AI call or the deterministic fallback; a stage runs only
\* if every earlier one fell through, and the call returns the category of
\* the first terminal stage.
C2_StageOrder ==
    /\ \/ \E n \in 0..4 : stages = SubSeq(StageOrder, 1, n)
       \/ stages = StageOrder \o <<"ai">>
       \/ stages = StageOrder \o <<"fallback">>
    /\ \A i \in 1..(Len(stages) - 1) :
          ~StageRaised(stages[i]) /\ StageCategory(stages[i]) = None
    /\ (pc = "done" /\ ~StageRaised(LastStage)) =>
          result = StageCategory(LastStage)

\* a call that the attachment stage ended, after the spam and structure
\* stages fell through
C2_Witness ==
    /\ pc = "done"
    /\ stages = <<"spam", "structure", "attachment">>
    /\ result = "engineer_related"

\* the exclusion keywords the subject and body contain, as written
ExclusionKeywordsIn(e) ==
    {kw \in exclusion_keywords : Contains(e.subject \o <<"SP">> \o e.body_text, kw)}

\* C3: an email whose subject and body contain at least two exclusion
\* keywords, or whose sender matches a suspicious pattern, is unclassified,
\* and the spam stage is the only stage that ran.
C3_SpamGate ==
    (/\ pc = "done"
     /\ WellFormed(email_data)
     /\ \/ Cardinality(ExclusionKeywordsIn(email_data)) >= 2
        \/ SenderSuspicious(email_data))
    => (result = "unclassified" /\ stages = <<"spam">>)

HasUltraEngineerMarker(e) ==
    \E i \in DOMAIN ultra_strong_engineer_indicators :
        FindAll(ultra_strong_engineer_indicators[i],
                e.subject \o <<"NL">> \o e.body_text) >= 1

\* C4 as stated: every email with an ultra-strong engineer marker is
\* engineer_related with structural confidence 0.95.
C4_Original ==
    (/\ pc = "done"
     /\ WellFormed(email_data)
     /\ HasUltraEngineerMarker(email_data))
    => (result = "engineer_related" /\ structure_analysis.confidence = 95)

\* C4 amended: every email with string fields that the spam gate lets pass
\* and that has an ultra-strong engineer marker is engineer_related with
\* structural confidence 0.95, with or without an AI client, and no AI call
\* is made.
C4_UltraEngineer ==
    (/\ pc = "done"
     /\ WellFormed(email_data)
     /\ ~check_spam_indicators(email_data)
     /\ HasUltraEngineerMarker(email_data))
    => (/\ result = "engineer_related"
        /\ structure_analysis.confidence = 95
        /\ ai_calls = 0)

\* an email with an engineer marker and a project marker, classified while
\* an AI client is configured
C4_Witness ==
    /\ pc = "done"
    /\ ai_client
    /\ ~check_spam_indicators(email_data)
    /\ HasUltraEngineerMarker(email_data)
    /\ Contains(email_data.body_text, <<"anken", "boshuu">>)
    /\ result = "engineer_related"

\* the only attachment has a resume extension and a resume keyword in its
\* (case-folded) name
OnlyResumeAttachment(e) ==
    /\ Len(e.attachments) = 1
    /\ e.attachments[1].filename # NoneStr
    /\ LET filename == Lower(e.attachments[1].filename)
       IN /\ \E ext \in resume_extensions : EndsWith(filename, <<ext>>)
          /\ \E p \in engineer_patterns : Contains(filename, p)

KeywordsFavourProject(e) ==
    calculate_keyword_score(e.body_text, "project_related")
        > calculate_keyword_score(e.body_text, "engineer_related") + 5

\* C5 as stated: every email whose only attachment is a resume by extension
\* and name is engineer_related.
C5_Original ==
    (/\ pc = "done"
     /\ WellFormed(email_data)
     /\ OnlyResumeAttachment(email_data))
    => result = "engineer_related"

\* C5 amended: an email with string fields that the spam gate lets pass, for
\* which the structural analysis is not decisive and whose only attachment is
\* a resume by extension and name, is engineer_related with attachment
\* confidence at least 0.9, also when the keyword scores favour
\* project_related.
C5_ResumeAttachment ==
    (/\ pc = "done"
     /\ WellFormed(email_data)
     /\ ~check_spam_indicators(email_data)
     /\ analyze_email_structure(email_data).definitive_type = None
     /\ OnlyResumeAttachment(email_data))
    => (/\ result = "engineer_related"
        /\ attachment_analysis.confidence >= 90
        /\ stages = <<"spam", "structure", "attachment">>)

\* such an email whose body scores for project_related
C5_Witness ==
    /\ pc = "done"
    /\ OnlyResumeAttachment(email_data)
    /\ WellFormed(email_data)
    /\ KeywordsFavourProject(email_data)
    /\ LastStage = "attachment"
    /\ result = "engineer_related"

Scenario_YouinGoshoukai(e) ==
    /\ e.subject = SampleLines[1]
    /\ e.body_text = SampleLines[2]

\* C6: a call in which the spam, structure, attachment or keyword stage is
\* terminal never invokes the AI classifier (so the email with subject
\* "youin goshoukai" and the bracketed name, age and experience labels is
\* engineer_related at confidence 0.90 or more without an AI request), and
\* no call invokes the AI classifier or sends a request more than once.
C6_AINotInvoked ==
    /\ ai_calls <= 1
    /\ ai_requests <= ai_calls
    /\ (pc = "done" /\ \E i \in 1..Len(stages) :
            stages[i] \in {"spam", "structure", "attachment", "keyword"}
            /\ (StageRaised(stages[i]) \/ StageCategory(stages[i]) # None))
       => (ai_calls = 0 /\ ai_requests = 0)
    /\ (/\ pc = "done"
        /\ Scenario_YouinGoshoukai(email_data)
        /\ WellFormed(email_data)
        /\ ~check_spam_indicators(email_data))
       => (/\ result = "engineer_related"
           /\ structure_analysis.confidence >= 90
           /\ ai_calls = 0)

\* the scenario, classified by a classifier that has an AI client
C6_Witness ==
    /\ pc = "done"
    /\ ai_client
    /\ Scenario_YouinGoshoukai(email_data)
    /\ result = "engineer_related"
    /\ ai_requests = 0

\* C9: when the AI classification request fails (timeout, HTTP error status,
\* response of the wrong shape) the call recovers through the secondary
\* provider, that is, a second request follows the failed one, and then
\* through the deterministic fallback classifier; no exception leaves it.
C9_AIFailureRecovery ==
    (pc = "done" /\ ai_reply.kind \in AIFailures)
    => (/\ result \in EmailType
        /\ \/ ai_requests >= 2
           \/ "fallback" \in {stages[i] : i \in DOMAIN stages})

\* ------------------------------------------------------------------------
\* Properties of extract_project_info and extract_engineer_info
\* ------------------------------------------------------------------------
Range(seq) == {seq[i] : i \in DOMAIN seq}

\* what the attempt recorded at position i of ex_attempts ended with
AttemptOutcome(i) ==
    WithClientOutcome(ex_data_type,
                      _create_client(extraction_configs[
                          cache_key("extraction", ex_attempts[i].use_fallback)]),
                      ex_attempts[i].reply, ex_today)

\* C7: a call of extract_project_info or extract_engineer_info contacts the
\* primary provider before the fallback provider and each at most once, so
\* it makes at most two provider attempts; the fallback provider is
\* contacted only when the primary attempt is over and has raised or given
\* no record (a primary client that does not exist gives no record without a
\* request); the call ends with a record or None, never with an exception.
C7_PrimaryThenFallback ==
    /\ Len(ex_attempts) <= 2
    /\ \A i, j \in DOMAIN ex_attempts :
          i < j => (~ex_attempts[i].use_fallback /\ ex_attempts[j].use_fallback)
    /\ \A i \in DOMAIN ex_attempts :
          ex_attempts[i].use_fallback =>
             \/ /\ i = 1
                /\ _create_client(extraction_configs[
                       cache_key("extraction", FALSE)]) = None
             \/ /\ i = 2
                /\ ex_attempts[1].reply.kind # "pending"
                /\ AttemptOutcome(1).kind \in {"raise", "none"}
    /\ ex_pc = "done" => ex_result.kind \in {"record", "none"}
    /\ (ex_pc = "done" /\ ex_result.kind = "record") =>
          ex_result = AttemptOutcome(Len(ex_attempts))

\* an extract_engineer_info call whose primary request timed out and whose
\* fallback reply could not be validated: two attempts, None returned
C7_Witness ==
    /\ ex_pc = "done"
    /\ ex_data_type = "engineer"
    /\ Len(ex_attempts) = 2
    /\ ex_attempts[1].reply.kind = "timeout"
    /\ AttemptOutcome(2).kind = "raise"
    /\ ex_result = NoRecord

\* the reply is a JSON object, and nothing else, with a title that is a
\* non-empty string
ValidProjectReply(reply) ==
    /\ reply.kind = "content"
    /\ json_loads(reply.text).ok
    /\ json_loads(reply.text).value.type = "dict"
    /\ Key("title") \in DOMAIN json_loads(reply.text).value.members
    /\ Truthy(json_loads(reply.text).value.members[Key("title")])

\* C8: when the primary request of an extract_project_info call times out
\* and the fallback provider replies with a valid JSON project record, the
\* call returns the record with the title of that reply and a start date in
\* YYYY-MM-DD form, and the log says that the fallback client was tried and
\* that it was the fallback client that extracted the project.
C8_FallbackRecord ==
    (/\ ex_pc = "done"
     /\ ex_data_type = "project"
     /\ Len(ex_attempts) = 2
     /\ ex_attempts[1].reply.kind = "timeout"
     /\ ValidProjectReply(ex_attempts[2].reply))
    => (/\ ex_result.kind = "record"
        /\ ex_result.title =
              json_loads(ex_attempts[2].reply.text).value.members[Key("title")].s
        /\ (ex_attempts[2].reply.text = ProjectObject =>
               ex_result.start_date = <<"2024", "-", "06", "-", "01">>)
        /\ LogLine("info", "try_fallback_client", "") \in Range(ex_log)
        /\ LogLine("info", "project_extracted", "fallback") \in Range(ex_log)
        /\ LogLine("info", "project_extracted", "primary") \notin Range(ex_log))

\* the scenario with a deepseek fallback client
C8_Witness ==
    /\ ex_pc = "done"
    /\ ex_data_type = "project"
    /\ Len(ex_attempts) = 2
    /\ ex_attempts[1].reply.kind = "timeout"
    /\ ex_attempts[2].provider_name = "deepseek"
    /\ ex_attempts[2].reply.text = ProjectObject
    /\ ex_result.kind = "record"
    /\ ex_result.title = <<"Java", "kaihatsu">>

\* ------------------------------------------------------------------------
\* Properties of process_emails_for_tenant
\* ------------------------------------------------------------------------
\* classification, storage or extraction of the email failed
ProcessingFailed(e) ==
    \/ e.classification \in {"raised", "ai_failed"}
    \/ e.fault # "none"
    \/ /\ ClassifiedAs(e) = "project_related"
       /\ e.extraction = "none"
    \/ /\ ClassifiedAs(e) = "engineer_related"
       /\ e.resume # "resume_data"
       /\ e.extraction = "none"

\* C10: when process_emails_for_tenant returns, there is exactly one result
\* per fetched email, in order, each with status processed or error; the
\* result of an email whose classification, storage or extraction failed has
\* status error and an error_message that is not empty; an email after a
\* failed one has its result too.
C10_OneResultPerEmail ==
    /\ pr_pc = "loop" => Len(pr_results) = pr_index - 1
    /\ pr_pc = "done" =>
          /\ Len(pr_results) = Len(pr_emails)
          /\ \A i \in DOMAIN pr_results :
                /\ pr_results[i].processing_status \in {"processed", "error"}
                /\ (pr_emails[i].valid /\ ProcessingFailed(pr_emails[i])) =>
                      /\ pr_results[i].processing_status = "error"
                      /\ pr_results[i].error_message \notin {None, ""}

\* ------------------------------------------------------------------------
\* Properties of the parsers and validators
\* ------------------------------------------------------------------------
\* C11: for every well-formed JSON object, of any nesting depth, put between
\* a prefix and a suffix of prose, _extract_json_from_text returns an object
\* equal to the one that was put in.
C11_RoundTrip ==
    nz_call = "_extract_json_from_text"
        => json_result = json_loads(json_embedded).value
\* C12: the language level validators return each of the four closed values
\* unchanged, return one of the four values for every string, and return
\* None only for None.
C12_LanguageLevel ==
    nz_call = "validate_language_level"
        => /\ (level_input.type = "str" /\ level_input.s \in LanguageLevels)
                  => /\ level_output = level_input
                     /\ level_resume = level_input
           /\ level_input.type = "str"
                  => /\ level_output.type = "str"
                     /\ level_output.s \in LanguageLevels
                     /\ level_resume.type = "str"
                     /\ level_resume.s \in LanguageLevels
           /\ level_input.type = "None"
                  <=> level_output.type = "None"
           /\ level_input.type = "None"
                  <=> level_resume.type = "None"

\* a closed value went through both validators
C12_Witness ==
    /\ nz_call = "validate_language_level"
    /\ level_input = PyStr(conversational_level)
    /\ level_output = PyStr(conversational_level)

\* the rows of the mapping table as the specification gives them
StatedTable ==
    <<Mapping(<<"n", "1">>, native_level),
      Mapping(<<"n", "a", "t", "i", "v", "e">>, native_level),
      Mapping(<<"f", "l", "u", "e", "n", "t">>, native_level),
      Mapping(<<"n", "2">>, business_level),
      Mapping(<<"b", "u", "s", "i", "n", "e", "s", "s">>, business_level),
      Mapping(<<"n", "3">>, conversational_level),
      Mapping(<<"n", "4">>, conversational_level),
      Mapping(<<"n", "5">>, conversational_level),
      Mapping(<<"c", "o", "n", "v", "e", "r", "s", "a", "t", "i", "o", "n",
                "a", "l">>, conversational_level),
      Mapping(<<"b", "a", "s", "i", "c">>, conversational_level),
      Mapping(<<"n", "o", "n", "e">>, unspecified_level)>>

\* the levels the stated table gives for the words v_str contains
StatedLevels(v_str) ==
    {StatedTable[i].value : i \in MappedKeys(StatedTable, v_str)}

\* the level the stated table gives: that of the words contained when they
\* agree, conversational when no word is contained
FollowsStatedTable(v_str, level) ==
    /\ StatedLevels(v_str) = {} => level = PyStr(conversational_level)
    /\ \A stated \in StatedLevels(v_str) :
           StatedLevels(v_str) = {stated} => level = PyStr(stated)

FirstKeyLevel(table, v_str) ==
    LET first == CHOOSE i \in MappedKeys(table, v_str) :
                     \A j \in MappedKeys(table, v_str) : i <= j
    IN PyStr(table[first].value)

\* the level EngineerStructured gives to a string with no key of its table:
\* by the first digit from 1 to 5, else by the word koukyuu, else
\* conversational
KeylessLevel(v_str) ==
    LET digits == {i \in DOMAIN v_str : v_str[i] \in {"1", "2", "3", "4", "5"}}
        first == CHOOSE i \in digits : \A j \in digits : i <= j
    IN IF digits # {}
       THEN IF v_str[first] = "1" THEN PyStr(native_level)
            ELSE IF v_str[first] = "2" THEN PyStr(business_level)
            ELSE PyStr(conversational_level)
       ELSE IF Contains(v_str, <<"koukyuu">>) THEN PyStr(native_level)
       ELSE PyStr(conversational_level)

\* the rows of the stated table with fluent moved to business
EngineerRows ==
    [i \in DOMAIN StatedTable |->
        IF StatedTable[i].key = <<"f", "l", "u", "e", "n", "t">>
        THEN Mapping(StatedTable[i].key, business_level)
        ELSE StatedTable[i]]

\* the rows of the stated table that ResumeData has: all but fluent and
\* basic
ResumeRows ==
    SelectSeq(StatedTable,
              LAMBDA row : row.key \notin {<<"f", "l", "u", "e", "n", "t">>,
                                           <<"b", "a", "s", "i", "c">>})

C26_LaterEmailsProcessed ==
    pr_pc = "tenant_done"
        => /\ Len(pr_rows) = Len(pr_emails)
           /\ \A i \in DOMAIN pr_emails :
                  pr_emails[i].fault # "save_email" => pr_rows[i] # NoRow

\* no filename has an engineer pattern or makes a resume file, and one has
\* a project pattern
ProjectNamedOnly(e) ==
    /\ \E i \in DOMAIN e.attachments :
           \E p \in project_patterns :
               Contains(Lower(e.attachments[i].filename), p)
    /\ \A i \in DOMAIN e.attachments :
           LET filename == Lower(e.attachments[i].filename)
           IN /\ \A p \in engineer_patterns : ~Contains(filename, p)
              /\ \A ext \in {".docx", ".doc", ".pdf"} :
                     ~EndsWith(filename, <<ext>>)

\* C27: a call of classify_email that returns at the attachment stage
\* (analyze_attachments has returned and the call ended there) returns
\* engineer_related, for any order of the attachments; attachments with
\* project names alone reach confidence 0.8 exactly, which does not end the
\* classification.
C27_AttachmentStageEngineer ==
    /\ (pc = "done" /\ LastStage = "attachment"
           /\ ~AttachmentsRaise(email_data))
           => /\ result = "engineer_related"
              /\ attachment_analysis.confidence > 80
    /\ (attachment_analysis # NoAttachments /\ ProjectNamedOnly(email_data))
           => /\ attachment_analysis.confidence = 80
              /\ attachment_analysis.strong_type = "project_related"
              /\ ~(pc = "done" /\ LastStage = "attachment")

\* a project attachment after an engineer attachment: the attachment stage
\* ends the call
C27_Witness ==
    /\ pc = "done"
    /\ LastStage = "attachment"
    /\ email_data.attachments =
           <<Attachment(<<"rirekisho", ".zip">>), Attachment(<<"anken", ".xlsx">>)>>
    /\ result = "engineer_related"

\* C28: for every provider EmailClassifier builds a client for (openai,
\* deepseek, custom), a call that reaches the AI classifier sends the
\* chat-completion request and returns the category mapped from the reply:
\* it never ends without a request having been sent.
C28_ProviderDispatch ==
    (/\ pc = "done"
     /\ LastStage = "ai"
     /\ ai_client
     /\ ai_config.provider_name \in {"openai", "deepseek", "custom"})
        => /\ ai_requests = 1
           /\ result = AIResult(ai_reply)
\* a string in the form YYYY-MM-DD
IsIsoDate(s) ==
    /\ Len(s) = 5
    /\ s[2] = "-"
    /\ IsDigits2(s[3])
    /\ s[4] = "-"
    /\ IsDigits2(s[5])

\* a text that starts with a year, a separator and a month number
StartsLikeDate(s) ==
    /\ Len(s) >= 3
    /\ s[1] \in YearWords
    /\ s[2] \in {"nen", "-", "/"}
    /\ IsDigits1or2(s[3])

\* C13: _parse_date_string turns "2024 nen 6 gatsu" into 2024-06-01, turns
\* "sokujitsu" and "ASAP" into the current date, which has the form
\* YYYY-MM-DD, and returns None for "not a date" and for every other text
\* that is neither an immediate phrase nor starts like a date.
C13_ParseDate ==
    nz_call = "_parse_date_string"
        => /\ date_input = <<"2024", "nen", "6", "gatsu">>
                  => date_output = <<"2024", "-", "06", "-", "01">>
           /\ date_input \in {<<"sokujitsu">>, <<"ASAP">>}
                  => date_output = date_today /\ IsIsoDate(date_output)
           /\ date_input = <<"not", "a", "date">> => date_output = NoneStr
           /\ (date_input \notin immediate_words /\ ~StartsLikeDate(date_input))
                  => date_output = NoneStr
           /\ date_output # NoneStr => IsIsoDate(date_output)

\* the year-and-month string was parsed
C13_Witness ==
    /\ nz_call = "_parse_date_string"
    /\ date_input = <<"2024", "nen", "6", "gatsu">>
    /\ date_output = <<"2024", "-", "06", "-", "01">>
\* the raw map has a name and an experience that are non-empty strings
NamedEngineer(data) ==
    /\ Truthy(Get(data, Key("name")))
    /\ Truthy(Get(data, Key("experience")))

\* C14: a raw engineer map with desired_rate_min "48 man en" gives a record
\* whose desired_rate_min is 48, one with gender "F" gives a record whose
\* gender is the female value, and neither value makes the construction fail.
C14_RateAndGender ==
    (nz_call = "EngineerStructured" /\ NamedEngineer(record_data))
        => /\ (/\ Get(record_data, Key("desired_rate_min"))
                      = PyStr(<<"4", "8", "man", "en">>)
               /\ ~OptionalStrFails(Get(record_data, Key("gender"))))
                  => /\ record_output.kind = "record"
                     /\ record_output.desired_rate_min = <<"4", "8">>
           /\ (/\ Get(record_data, Key("gender")) = PyStr(<<"F">>)
               /\ Get(record_data, Key("desired_rate_min")).type
                      \in {"None", "int"})
                  => /\ record_output.kind = "record"
                     /\ record_output.gender = female
\* the optional fields of the raw map pass their type checks
OptionalFieldsPass(data) ==
    /\ ~OptionalStrFails(Get(data, Key("gender")))
    /\ ~OptionalIntFails(Get(data, Key("desired_rate_min")))

\* C15: whatever the raw map holds for title, name and experience (a string,
\* the empty string, null or nothing), the record is constructed and its
\* title, or its name and experience, are non-empty.
C15_RequiredFields ==
    /\ nz_call = "ProjectStructured"
          => /\ record_output.kind = "record"
             /\ record_output.title # <<>>
    /\ (nz_call = "EngineerStructured" /\ OptionalFieldsPass(record_data))
          => /\ record_output.kind = "record"
             /\ record_output.name # <<>>
             /\ record_output.experience # <<>>
\* ------------------------------------------------------------------------
\* Properties of the shared client manager
\* ------------------------------------------------------------------------
\* C16: a client exists for a key only after a request for that key created
\* it; since the last clear() at most one client has been created for each
\* key; and every task that was handed a client since then holds the cached
\* client of its key, so that all of them hold the same one.
C16_OneClientPerKey ==
    /\ \A key \in CacheKeys :
          /\ created[key] <= 1
          /\ clients[key] # None <=> created[key] = 1
    /\ \A task \in Tasks :
          (held[task].client # None /\ held[task].period = period)
              => /\ held[task].client = clients[held[task].key]
                 /\ held[task].id = client_ids[held[task].key]

\* two tasks hold the client of the same key, created once, while
\* close_all_clients is suspended in aclose()
C16_Witness ==
    /\ held[1].client # None
    /\ held[2].client # None
    /\ held[1].key = held[2].key
    /\ held[1].id = held[2].id
    /\ created[held[1].key] = 1
    /\ close_pc = "aclose"
StructureAnalysed == structure_analysis.structure_type # "unset"

CombinedText == email_data.subject \o <<"NL">> \o email_data.body_text

Decided(type, hundredths) ==
    /\ structure_analysis.definitive_type = type
    /\ structure_analysis.confidence = hundredths

C18_StructurePrecedence ==
    StructureAnalysed =>
        LET a == structure_analysis
        IN /\ a.ultra_engineer_score >= 20 => Decided("engineer_related", 95)
           /\ (a.ultra_engineer_score < 20 /\ a.ultra_project_score >= 20)
                 => Decided("project_related", 95)
           /\ (a.ultra_engineer_score < 20 /\ a.ultra_project_score < 20
                 /\ a.personal_info_count >= 4)
                 => Decided("engineer_related", 90)
           /\ (a.ultra_engineer_score < 20 /\ a.ultra_project_score < 20
                 /\ a.personal_info_count < 4 /\ a.project_info_count >= 4)
                 => Decided("project_related", 90)
           /\ (a.ultra_engineer_score < 20 /\ a.ultra_project_score < 20
                 /\ a.personal_info_count < 4 /\ a.project_info_count < 4)
                 => Decided(None, 0)
           /\ (/\ CountAll(ultra_strong_engineer_indicators, CombinedText) >= 1
               /\ CountAll(ultra_strong_project_indicators, CombinedText) >= 1)
                 => Decided("engineer_related", 95)

\* an analysed email with one ultra-strong engineer marker and more than one
\* ultra-strong project marker, decided engineer_related
C18_Witness ==
    /\ StructureAnalysed
    /\ structure_analysis.ultra_engineer_score = 20
    /\ structure_analysis.ultra_project_score > 20
    /\ Decided("engineer_related", 95)

\* ------------------------------------------------------------------------
\* C19  In the keyword stage a recruiting-sender match does not itself
\*      flip the decision: for an email that reaches the stage, the outcome
\*      of classify_email (the category returned, or the fall through to
\*      the AI request) is the outcome for the identical email from a
\*      sender that matches no recruiting pattern.
\* ------------------------------------------------------------------------
NeutralSender ==
    [sender_email |-> <<"tanaka", "@", "example", ".com">>,
     sender_name |-> <<"tanaka">>]

FromNeutralSender(e) ==
    [e EXCEPT !.sender_email = NeutralSender.sender_email,
              !.sender_name = NeutralSender.sender_name]

C19_SenderDoesNotFlip ==
    (/\ pc = "done"
     /\ scores.set
     /\ analyze_sender_info(email_data) = "recruiting")
        => /\ analyze_sender_info(FromNeutralSender(email_data)) = "unknown"
           /\ ClassifySync(email_data, ai_config, ai_client)
                 = ClassifySync(FromNeutralSender(email_data), ai_config,
                                ai_client)

\* ------------------------------------------------------------------------
\* C20  Sender reputation is never a sole classifier: with no structural
\*      match, no attachment signal, zero keyword score for both
\*      categories and no AI client, classify_email never returns
\*      engineer_related or project_related, whoever the sender is.
\* ------------------------------------------------------------------------
NoContentSignal ==
    /\ structure_analysis.ultra_engineer_score = 0
    /\ structure_analysis.ultra_project_score = 0
    /\ structure_analysis.personal_info_count = 0
    /\ structure_analysis.project_info_count = 0
    /\ attachment_analysis.confidence = 0
    /\ calculate_keyword_score(smart_content_extraction(email_data),
                               "project_related") = 0
    /\ calculate_keyword_score(smart_content_extraction(email_data),
                               "engineer_related") = 0

C20_SenderNeverSoleClassifier ==
    (/\ pc = "done"
     /\ scores.set
     /\ ~ai_client
     /\ NoContentSignal)
        => result \notin {"engineer_related", "project_related"}

\* ------------------------------------------------------------------------
\* C21  Deterministic fallback: with no AI client and no earlier terminal
\*      stage, the result is engineer_related if the engineer keyword score
\*      is the greater and above 3.0, project_related if the project
\*      keyword score is the greater and above 3.0; otherwise other if the
\*      excerpt contains an informational keyword, and unclassified in
\*      every remaining case, equal scores included.
\* ------------------------------------------------------------------------
KeywordScore(email_type) ==
    calculate_keyword_score(smart_content_extraction(email_data), email_type)

C21_FallbackOnKeywordScores ==
    (pc = "done" /\ LastStage = "fallback") =>
        result =
            IF /\ KeywordScore("engineer_related") > KeywordScore("project_related")
               /\ KeywordScore("engineer_related") > 3
            THEN "engineer_related"
            ELSE IF /\ KeywordScore("project_related") > KeywordScore("engineer_related")
                    /\ KeywordScore("project_related") > 3
            THEN "project_related"
            ELSE IF \E w \in informational_words :
                        Contains(Lower(smart_content_extraction(email_data)), w)
            THEN "other"
            ELSE "unclassified"

\* ------------------------------------------------------------------------
\* C22  When the AI classifier stage runs and the provider answers, the
\*      result is the answer mapped by substring match: a category text
\*      containing "project" gives project_related, "engineer" gives
\*      engineer_related, "other" gives other, anything else (a missing
\*      category included) gives unclassified; a reply that is not JSON is
\*      mapped by the same rule applied to the whole reply text.
\* ------------------------------------------------------------------------
MappedBySubstring(text) ==
    IF Contains(Lower(text), <<"project">>) THEN "project_related"
    ELSE IF Contains(Lower(text), <<"engineer">>) THEN "engineer_related"
    ELSE IF Contains(Lower(text), <<"other">>) THEN "other"
    ELSE "unclassified"

AnsweredText ==
    IF ai_reply.category \in {Absent, NoneStr} THEN <<>> ELSE ai_reply.category

C22_AIAnswerMapped ==
    (/\ pc = "done"
     /\ LastStage = "ai"
     /\ ai_reply.kind \in {"json", "text"})
        => result = MappedBySubstring(AnsweredText)

\* ------------------------------------------------------------------------
\* C23  Every ProjectStructured record built from extracted data has a
\*      start_date that is a valid calendar date in the form YYYY-MM-DD: a
\*      missing, empty or unparseable start_date is replaced by the current
\*      date, and an unparseable application_deadline becomes null.
\* ------------------------------------------------------------------------
IsValidIsoDate(s) ==
    /\ IsIsoDate(s)
    /\ s[1] \in YearWords \cup {"2026"}
    /\ IsCalendarDate(YearOf(s[1]), IntOf(s[3]), IntOf(s[5]))

ProjectRecordBuilt ==
    /\ nz_call = "_extract_project_with_client"
    /\ record_output.kind = "record"

C23_StartDateIsADate ==
    ProjectRecordBuilt =>
        LET start == Get(record_data, Key("start_date"))
            deadline == Get(record_data, Key("application_deadline"))
        IN /\ IsValidIsoDate(record_output.start_date)
           /\ (\/ ~Truthy(start)
               \/ _parse_date_string(start.s, date_today) = NoneStr)
                 => record_output.start_date = date_today
           /\ (/\ Truthy(deadline)
               /\ _parse_date_string(deadline.s, date_today) = NoneStr)
                 => record_output.application_deadline = NoneStr

\* a record built from a start date that names no calendar day and a
\* deadline that is no date
C23_Witness ==
    /\ ProjectRecordBuilt
    /\ Get(record_data, Key("start_date")) = PyStr(<<"2025", "-", "02", "-", "29">>)
    /\ Get(record_data, Key("application_deadline")) = PyStr(<<"not", "a", "date">>)
    /\ record_output.start_date = date_today
    /\ record_output.application_deadline = NoneStr

\* ------------------------------------------------------------------------
\* C24  smart_content_extraction returns an excerpt whose length is bounded
\*      by a constant independent of the length of the body (about 2000
\*      characters): a body of at most 2000 characters is returned
\*      unchanged, and a longer body is reduced to the 800-character head,
\*      at most two important paragraphs and the 300-character tail.
\*      "About 2000" is read generously as at most 3000.
\* ------------------------------------------------------------------------
BodyLength == JoinedLength(body_lines, 1, Len(body_lines))

C24_ExcerptBounded ==
    nz_call = "smart_content_extraction" =>
        /\ BodyLength <= 2000 => excerpt.body
        /\ excerpt.paragraphs <= 2
        /\ excerpt.length <= 3000
        /\ BodyLength > 2000 => excerpt.length < BodyLength


\* C29: get_client never returns a client close_all_clients has already
\* called aclose() on, whatever the interleaving; when close_all_clients is
\* over the cache is empty, so that the next get_client creates a client.
C29_NeverHandsOutClosed ==
    [][/\ \A task \in Tasks :
             (held'[task] # held[task] /\ held'[task] # NoClientHeld)
                 => held'[task].id \notin closed
       /\ (close_pc # "idle" /\ close_pc' = "idle")
             => /\ client_order' = <<>>
                /\ \A key \in CacheKeys : clients'[key] = None]_vars


\* the inputs that denote female, and those that denote male
DenotesFemale ==
    {<<"F">>, <<"f", "e", "m", "a", "l", "e">>, <<"onna">>, female}

DenotesMale == {<<"M">>, <<"m", "a", "l", "e">>, <<"otoko">>, male}

\* C30: in a constructed engineer record the gender of every input that is
\* not null is one of the three closed values, each input that denotes
\* female gives the female value and each input that denotes male the male
\* value.
C30_GenderMapped ==
    (nz_call = "EngineerStructured" /\ record_output.kind = "record")
        => LET gender == Get(record_data, Key("gender"))
           IN /\ gender.type = "str"
                     => record_output.gender \in {male, female, undisclosed}
              /\ (gender.type = "str" /\ gender.s \in DenotesFemale)
                     => record_output.gender = female
              /\ (gender.type = "str" /\ gender.s \in DenotesMale)
                     => record_output.gender = male

====
